---- MODULE Spec2Model ----
(***************************************************************************)
(* crudx: the statement-construction engine.  A Model is built from an     *)
(* entity, bound to a dialect, optionally ordered and limited, and then    *)
(* consumed by one terminal operation that assembles SQL text plus a bound *)
(* argument list and hands both to the transport.                          *)
(*                                                                         *)
(* Text is a sequence of one-character strings; emitted SQL is a sequence  *)
(* of tokens [t, n]: a literal piece of text (n = 0) or a numbered         *)
(* placeholder ($n, @Pn).                                                  *)
(***************************************************************************)
EXTENDS Integers, Sequences, FiniteSets, TLC

VARIABLES
    debugBuild, \* whether debug_assert! is compiled in (debug vs release build)
    typeName,   \* the entity's type name, as `!entity` reports it
    entity,     \* Model.entity: the type-erased field slots of the bound entity
    table,      \* Model.table
    fields,     \* Model.fields: field name -> column override
    stage,      \* which builder type the caller holds
    dialect,    \* the dialect the model was bound to
    order,      \* *Model.order
    limit,      \* *Model.limit
    offset,     \* *Model.offset
    hist,       \* the builder methods called so far, in order
    call,       \* the inputs of the terminal operation that was issued
    built,      \* the builder state when the terminal operation stopped building
    sent,       \* the statements handed to the transport
    outcome,    \* what the terminal operation returned
    fromRow,    \* the (row, field) pairs the Row Materializer was called for
    received,   \* what the transport answered to each statement
    returned,   \* the entities the query operation handed back
    tasks,      \* concurrent builds: what each task owns and where it stands
    flt,        \* a Filter the caller is composing: expr and args
    applied     \* the and / or / if_and / if_or calls made on flt, in order

vars == <<debugBuild, typeName, entity, table, fields, stage, dialect, order, limit,
          offset, hist, call, built, sent, outcome, fromRow, received,
          returned, tasks, flt, applied>>

----------------------------------------------------------------------------
(* Bounds of the model *)

\* longest filter expression
MaxExpr == 2
\* longest join_on / having fragment
MaxSide == 1
\* longest filter argument list
MaxArgs == 3
\* longest filter argument list of the chains that vary mapping and entity
MaxCoreArgs == 1
\* most rows passed to insert(rows)
MaxRows == 2
\* and / or / if_and / if_or calls made on one Filter
MaxCalls == 3
\* characters of an entity type name
MaxName == 3

----------------------------------------------------------------------------
(* Values, text and tokens *)

SeqsUpTo(S, n) == UNION {[1..k -> S] : k \in 0..n}

\* a type-erased value (dyn Any): its concrete type and its content
Val(ty, v) == [typ |-> ty, val |-> v]

Lit(s) == [t |-> s, n |-> 0]

Dialects == {"postgres", "mysql", "sqlite", "mssql"}

\* the entity type of the model: its name and its field names (the ! operator)
EntityName == <<"A", "B", "s">>
FNames == <<"id", "name">>
NF == Len(FNames)

Upper == {"A", "B"}
ToLower(ch) == IF ch = "A" THEN "a" ELSE IF ch = "B" THEN "b" ELSE ch

\* a table name derivation that starts every uppercase letter with "_"
RECURSIVE TableFromEvery(_, _, _)
TableFromEvery(name, i, tbl) ==
    IF i > Len(name) THEN tbl
    ELSE LET ch == name[i] IN
         IF ch \in Upper
         THEN TableFromEvery(name, i + 1, Append(tbl, "_") \o <<ToLower(ch)>>)
         ELSE TableFromEvery(name, i + 1, Append(tbl, ch))

RECURSIVE TableFrom(_, _, _)
TableFrom(name, i, tbl) ==
    IF i > Len(name) THEN tbl
    ELSE LET ch == name[i] IN
         IF ch \in Upper
         THEN TableFrom(name, i + 1,
                        (IF Len(tbl) > 0 THEN Append(tbl, "_") ELSE tbl)
                            \o <<ToLower(ch)>>)
         ELSE TableFrom(name, i + 1, Append(tbl, ch))

\* Model::new: the table name and the empty override of every field
NewTable(name) == TableFrom(name, 1, <<>>)
NewFields == [f \in {FNames[i] : i \in 1..NF} |-> ""]

----------------------------------------------------------------------------
(* The statement builder: SQL text, bound parameters, debug string, cursor *)
(* idx and quote flag quo.  binds records, for every placeholder rewritten,  *)
(* the fragment and position of its `?` and the argument it took; stop is   *)
(* the `?` at which " ? exceeds the number of args" was returned.           *)

NewBuilder(s) ==
    [sql |-> <<Lit(s)>>, params |-> <<>>, args |-> <<>>, idx |-> 0,
     quo |-> FALSE, binds |-> <<>>, err |-> "", stop |-> [frag |-> "", pos |-> 0]]

Push(b, s) == [b EXCEPT !.sql = Append(@, Lit(s))]

PushStr(b, str) == [b EXCEPT !.sql = @ \o [i \in 1..Len(str) |-> Lit(str[i])]]

PushIf(c, b, s) == IF c THEN Push(b, s) ELSE b

\* the types the built-in converter of a dialect downcasts to
Supported(d) ==
    IF d = "mssql"
    THEN {"Vec<u8>", "String", "&str", "f64", "f32", "i64", "i32", "i16", "u8", "bool"}
    ELSE {"Vec<u8>", "String", "&str", "f64", "f32", "i64", "i32", "i16", "i8", "bool"}

\* sqlx QueryBuilder::push_bind: add the argument, write its placeholder
PushBind(d, b, v) ==
    [b EXCEPT !.params = Append(@, v),
              !.sql = Append(@, IF d = "postgres"
                                THEN [t |-> "$", n |-> Len(b.params) + 1]
                                ELSE Lit("?"))]

\* sqlx_to_arg!: bind the value, or fail on a type no branch downcasts to
SqlxToArg(d, b, v) ==
    IF v.typ \in Supported(d)
    THEN [PushBind(d, b, v) EXCEPT !.args = Append(@, v)]
    ELSE [b EXCEPT !.err = "unsupported"]

\* mssql_to_arg!: push the value on the parameter vector, or fail
MssqlToArg(b, v) ==
    IF v.typ \in Supported("mssql")
    THEN [b EXCEPT !.params = Append(@, v), !.args = Append(@, v)]
    ELSE [b EXCEPT !.err = "unsupported"]

\* a tabular binder that numbers a placeholder by the fragment cursor
BindValueLocalNumber(d, b, v) ==
    IF b.err # "" THEN b
    ELSE IF d = "mssql"
         THEN LET c == MssqlToArg(b, v) IN
              IF c.err # "" THEN c
              ELSE [c EXCEPT !.sql = Append(@, [t |-> "@P", n |-> b.idx + 1])]
         ELSE SqlxToArg(d, b, v)

\* one `(to_arg)(value, ..)?` call site; the tabular dialect then writes
\* "@P" followed by params.len()
BindValue(d, b, v) ==
    IF b.err # "" THEN b
    ELSE IF d = "mssql"
         THEN LET c == MssqlToArg(b, v) IN
              IF c.err # "" THEN c
              ELSE [c EXCEPT !.sql = Append(@, [t |-> "@P", n |-> Len(c.params)])]
         ELSE SqlxToArg(d, b, v)

\* a scanner that hands every placeholder the first argument
ScanCharFirstArg(d, b, name, i, ch, args) ==
    LET q  == IF ch = "'" THEN ~b.quo ELSE b.quo
        b1 == [b EXCEPT !.quo = q]
    IN  IF ch = "?" /\ ~q
        THEN IF b1.idx >= Len(args)
             THEN [b1 EXCEPT !.err = "overflow", !.stop = [frag |-> name, pos |-> i]]
             ELSE LET c == BindValue(d, b1, args[1]) IN
                  IF c.err # "" THEN c
                  ELSE [c EXCEPT !.idx = @ + 1,
                                 !.binds = Append(@, [frag |-> name, pos |-> i,
                                                      arg |-> 1])]
        ELSE Push(b1, ch)

\* a scanner that does not look at the quote flag
ScanCharNoQuote(d, b, name, i, ch, args) ==
    IF ch = "?"
    THEN IF b.idx >= Len(args)
         THEN [b EXCEPT !.err = "overflow", !.stop = [frag |-> name, pos |-> i]]
         ELSE LET c == BindValue(d, b, args[b.idx + 1]) IN
              IF c.err # "" THEN c
              ELSE [c EXCEPT !.idx = @ + 1,
                             !.binds = Append(@, [frag |-> name, pos |-> i,
                                                  arg |-> b.idx + 1])]
    ELSE Push(b, ch)

\* one character of a scanned fragment
ScanChar(d, b, name, i, ch, args) ==
    LET q  == IF ch = "'" THEN ~b.quo ELSE b.quo
        b1 == [b EXCEPT !.quo = q]
    IN  IF ch = "?" /\ ~q
        THEN IF b1.idx >= Len(args)
             THEN [b1 EXCEPT !.err = "overflow", !.stop = [frag |-> name, pos |-> i]]
             ELSE LET c == BindValue(d, b1, args[b1.idx + 1]) IN
                  IF c.err # "" THEN c
                  ELSE [c EXCEPT !.idx = @ + 1,
                                 !.binds = Append(@, [frag |-> name, pos |-> i,
                                                      arg |-> b1.idx + 1])]
        ELSE Push(b1, ch)

RECURSIVE ScanFrom(_, _, _, _, _, _)
ScanFrom(d, b, name, frag, i, args) ==
    IF i > Len(frag) \/ b.err # "" THEN b
    ELSE ScanFrom(d, ScanChar(d, b, name, i, frag[i], args), name, frag, i + 1, args)

\* `for ch in fragment.chars() { .. }`
Scan(d, b, name, frag, args) == ScanFrom(d, b, name, frag, 1, args)

\* debug_assert!(!quo, ..): panics in a build with debug assertions
DebugAssert(dbg, b) ==
    IF b.err = "" /\ dbg /\ b.quo THEN [b EXCEPT !.err = "panic"] ELSE b

\* a build without the final argument count check
CountCheckAbsent(b, args) == b

\* `if idx != filter.args.len() { return Err(..) }`
CountCheck(b, args) ==
    IF b.err = "" /\ b.idx # Len(args) THEN [b EXCEPT !.err = "mismatch"] ELSE b

----------------------------------------------------------------------------
(* Filter: an expression and its arguments, composed by and / or.  The      *)
(* separators " and " and " or " are single elements of the expression.     *)

\* Filter::default()
NewFilter == [expr |-> <<>>, args |-> <<>>]

\* a conjoin that writes the separator before an empty fragment too
ConjoinEmptyToo(f, sep, item) ==
    [expr |-> IF Len(f.expr) > 0 THEN f.expr \o <<sep>> \o item.frag
              ELSE f.expr \o item.frag,
     args |-> f.args \o item.args]

\* a conjoin that writes the separator into an empty expression too
ConjoinLeading(f, sep, item) ==
    [expr |-> IF Len(item.frag) > 0 THEN f.expr \o <<sep>> \o item.frag ELSE f.expr,
     args |-> f.args \o item.args]

\* the body of `if condition { .. }` in if_and / if_or
Conjoin(f, sep, item) ==
    LET e1 == IF Len(item.frag) > 0
              THEN (IF Len(f.expr) > 0 THEN f.expr \o <<sep>> ELSE f.expr) \o item.frag
              ELSE f.expr
        a1 == IF Len(item.args) > 0 THEN f.args \o item.args ELSE f.args
    IN  [expr |-> e1, args |-> a1]

\* an if_and that does not look at the condition
if_andAlways(f, condition, item) == Conjoin(f, " and ", item)

if_and(f, condition, item) == IF condition THEN Conjoin(f, " and ", item) ELSE f
if_or(f, condition, item) == IF condition THEN Conjoin(f, " or ", item) ELSE f
and(f, item) == if_and(f, TRUE, item)
or(f, item) == if_or(f, TRUE, item)

----------------------------------------------------------------------------
(* Inputs of the terminal operations *)

\* Option<&Filter>, Option<Other>
NoFilter == [some |-> FALSE, expr |-> <<>>, args |-> <<>>]
SomeFilter(f) == [some |-> TRUE, expr |-> f.expr, args |-> f.args]
NoOther == [some |-> FALSE, join_on |-> <<>>, group_by |-> <<>>, having |-> <<>>]

\* a mapping in which "-" excludes nothing
SkippedNever(flds, fd) == FALSE

\* `if let Some(&co) = fields.get(fd) { if co == "-" { continue; } }`
Skipped(flds, fd) == fd \in DOMAIN flds /\ flds[fd] = "-"

----------------------------------------------------------------------------
(* Sections of a statement *)

\* a column list that names every participating field by its field name
RECURSIVE FieldsFromNames(_, _, _, _)
FieldsFromNames(b, flds, i, sep) ==
    IF i > NF THEN b
    ELSE IF Skipped(flds, FNames[i]) THEN FieldsFromNames(b, flds, i + 1, sep)
         ELSE FieldsFromNames(Push(PushIf(sep, b, ","), FNames[i]), flds, i + 1, TRUE)

\* fields section of insert_one / insert: the column list
RECURSIVE FieldsFrom(_, _, _, _)
FieldsFrom(b, flds, i, sep) ==
    IF i > NF THEN b
    ELSE LET fd == FNames[i] IN
         IF fd \in DOMAIN flds
         THEN LET co == flds[fd] IN
              IF co # ""
              THEN IF co # "-"
                   THEN FieldsFrom(Push(PushIf(sep, b, ","), co), flds, i + 1, TRUE)
                   ELSE FieldsFrom(b, flds, i + 1, sep)
              ELSE FieldsFrom(Push(PushIf(sep, b, ","), fd), flds, i + 1, TRUE)
         ELSE FieldsFrom(b, flds, i + 1, sep)

FieldsSection(b, flds) == FieldsFrom(Push(b, "("), flds, 1, FALSE)

\* values section of insert_one / insert: one bound value per field not skipped
RECURSIVE ValuesFrom(_, _, _, _, _, _)
ValuesFrom(d, b, flds, row, i, sep) ==
    IF i > NF \/ b.err # "" THEN b
    ELSE IF Skipped(flds, FNames[i])
         THEN ValuesFrom(d, b, flds, row, i + 1, sep)
         ELSE ValuesFrom(d, BindValue(d, PushIf(sep, b, ","), row[i]),
                         flds, row, i + 1, TRUE)

ValuesSection(d, b, flds, row) == ValuesFrom(d, b, flds, row, 1, FALSE)

\* update statement section: `col=<placeholder>` per participating field
RECURSIVE SetFrom(_, _, _, _, _, _)
SetFrom(d, b, flds, ent, i, sep) ==
    IF i > NF \/ b.err # "" THEN b
    ELSE LET fd == FNames[i] IN
         IF fd \in DOMAIN flds
         THEN LET co == flds[fd] IN
              IF co # ""
              THEN IF co # "-"
                   THEN SetFrom(d, BindValue(d, Push(Push(PushIf(sep, b, ","), co), "="),
                                             ent[i]),
                                flds, ent, i + 1, TRUE)
                   ELSE SetFrom(d, b, flds, ent, i + 1, sep)
              ELSE SetFrom(d, BindValue(d, Push(Push(PushIf(sep, b, ","), fd), "="),
                                        ent[i]),
                           flds, ent, i + 1, TRUE)
         ELSE SetFrom(d, b, flds, ent, i + 1, sep)

SetSection(d, b, flds, ent) == SetFrom(d, b, flds, ent, 1, FALSE)

\* a select section that writes an override without its alias
RECURSIVE SelectFromNoAlias(_, _, _, _)
SelectFromNoAlias(b, flds, i, sep) ==
    IF i > NF THEN b
    ELSE LET fd == FNames[i] IN
         IF fd \in DOMAIN flds /\ flds[fd] # "-"
         THEN SelectFromNoAlias(Push(PushIf(sep, b, ","),
                                     IF flds[fd] # "" THEN flds[fd] ELSE fd),
                                flds, i + 1, TRUE)
         ELSE SelectFromNoAlias(b, flds, i + 1, sep)

\* select statement section: `col as field`, or the bare field name when the
\* override is empty; comma separated
RECURSIVE SelectFrom(_, _, _, _)
SelectFrom(b, flds, i, sep) ==
    IF i > NF THEN b
    ELSE LET fd == FNames[i] IN
         IF fd \in DOMAIN flds
         THEN LET co == flds[fd] IN
              IF co # ""
              THEN IF co # "-"
                   THEN SelectFrom(Push(Push(Push(PushIf(sep, b, ","), co), " as "), fd),
                                   flds, i + 1, TRUE)
                   ELSE SelectFrom(b, flds, i + 1, sep)
              ELSE SelectFrom(Push(PushIf(sep, b, ","), fd), flds, i + 1, TRUE)
         ELSE SelectFrom(b, flds, i + 1, sep)

SelectSection(b, flds) == SelectFrom(b, flds, 1, FALSE)

\* select statement section of the tabular paginated query: every column is
\* followed by a comma (row_number() comes last)
RECURSIVE NumSelectFrom(_, _, _)
NumSelectFrom(b, flds, i) ==
    IF i > NF THEN b
    ELSE LET fd == FNames[i] IN
         IF fd \in DOMAIN flds
         THEN LET co == flds[fd] IN
              IF co # ""
              THEN IF co # "-"
                   THEN NumSelectFrom(Push(Push(Push(Push(b, co), " as "), fd), ","),
                                      flds, i + 1)
                   ELSE NumSelectFrom(b, flds, i + 1)
              ELSE NumSelectFrom(Push(Push(b, fd), ","), flds, i + 1)
         ELSE NumSelectFrom(b, flds, i + 1)

\* a where section that is written even for an empty expression
WhereOwnQuoteAlways(d, dbg, b, f) ==
    IF b.err # "" THEN b
    ELSE DebugAssert(dbg, Scan(d, [Push(b, " where ") EXCEPT !.quo = FALSE],
                               "where", f.expr, f.args))

\* where statement section of update / delete: its own quote flag, skipped
\* when the expression is empty
WhereOwnQuote(d, dbg, b, f) ==
    IF b.err # "" \/ Len(f.expr) = 0 THEN b
    ELSE DebugAssert(dbg, Scan(d, [Push(b, " where ") EXCEPT !.quo = FALSE],
                               "where", f.expr, f.args))

\* join on statement section of count and the queries
JoinSection(d, dbg, b, f, ot) ==
    IF b.err # "" THEN b
    ELSE DebugAssert(dbg,
             IF ot.some /\ Len(ot.join_on) > 0
             THEN Scan(d, Push(b, " "), "join", ot.join_on, f.args)
             ELSE b)

\* a where section of count and the queries that starts with a flag of its
\* own
WhereSectionFreshFlag(d, dbg, b, f) ==
    IF b.err # "" THEN b
    ELSE DebugAssert(dbg,
             IF Len(f.expr) > 0
             THEN Scan(d, [Push(b, " where ") EXCEPT !.quo = FALSE],
                       "where", f.expr, f.args)
             ELSE b)

\* where statement section of count and the queries: the quote flag is the
\* one the join on section left
WhereSection(d, dbg, b, f) ==
    IF b.err # "" THEN b
    ELSE DebugAssert(dbg,
             IF Len(f.expr) > 0
             THEN Scan(d, Push(b, " where "), "where", f.expr, f.args)
             ELSE b)

\* group by and having sections that leave the subquery of count open
GroupSectionUnclosed(d, dbg, b, f, ot, sub) ==
    IF b.err # "" THEN b
    ELSE DebugAssert(dbg,
             IF ot.some /\ Len(ot.group_by) > 0
             THEN LET g == PushStr(Push(b, " "), ot.group_by)
                  IN  IF Len(ot.having) > 0
                      THEN Scan(d, Push(g, " "), "having", ot.having, f.args)
                      ELSE g
             ELSE b)

\* group by and having sections that scan having whether or not there is a
\* group by
GroupSectionHavingAlways(d, dbg, b, f, ot, sub) ==
    IF b.err # "" THEN b
    ELSE DebugAssert(dbg,
             IF ot.some
             THEN LET g == IF Len(ot.group_by) > 0
                           THEN PushStr(Push(b, " "), ot.group_by) ELSE b
                      h == IF Len(ot.having) > 0
                           THEN Scan(d, Push(g, " "), "having", ot.having, f.args)
                           ELSE g
                  IN  IF h.err # "" \/ Len(ot.group_by) = 0 THEN h
                      ELSE PushIf(sub, h, ") sub")
             ELSE b)

\* group by and having statement sections; count closes its subquery here
GroupSection(d, dbg, b, f, ot, sub) ==
    IF b.err # "" THEN b
    ELSE DebugAssert(dbg,
             IF ot.some /\ Len(ot.group_by) > 0
             THEN LET g == PushStr(Push(b, " "), ot.group_by)
                      h == IF Len(ot.having) > 0
                           THEN Scan(d, Push(g, " "), "having", ot.having, f.args)
                           ELSE g
                  IN  IF h.err # "" THEN h ELSE PushIf(sub, h, ") sub")
             ELSE b)

\* a build that scans the where section before the join on section
FragmentsWhereFirst(d, dbg, b, f, ot, sub) ==
    CountCheck(GroupSection(d, dbg,
                   JoinSection(d, dbg, WhereSection(d, dbg, b, f), f, ot),
                   f, ot, sub),
               f.args)

\* join on, where, group by / having, then the argument count check
Fragments(d, dbg, b, f, ot, sub) ==
    CountCheck(GroupSection(d, dbg,
                   WhereSection(d, dbg, JoinSection(d, dbg, b, f, ot), f),
                   f, ot, sub),
               f.args)

\* an order by section that runs the order string through the quote flag
\* and the argument cursor
OrderSectionScanned(b, ord) ==
    IF b.err = "" /\ Len(ord) > 0
    THEN LET odd == Cardinality({i \in 1..Len(ord) : ord[i] = "'"}) % 2 = 1
             marks == Cardinality({i \in 1..Len(ord) : ord[i] = "?"})
         IN  [PushStr(Push(b, " order by "), ord)
                 EXCEPT !.quo = (IF odd THEN ~@ ELSE @), !.idx = @ + marks]
    ELSE b

\* order by statement section
OrderSection(b, ord) ==
    IF b.err = "" /\ Len(ord) > 0 THEN PushStr(Push(b, " order by "), ord) ELSE b

----------------------------------------------------------------------------
(* The statement each terminal operation builds *)

I64(n) == Val("i64", n)

\* a where section of insert_one that is left out for an empty expression
InsertWhereIfExpr(d, dbg, b, fo) ==
    IF Len(fo.expr) = 0 THEN CountCheck(b, fo.args)
    ELSE CountCheck(DebugAssert(dbg, Scan(d, Push(b, " where "), "where",
                                          fo.expr, fo.args)),
                    fo.args)

\* the where statement section of insert_one(Some(filter)): always emitted
InsertWhere(d, dbg, b, fo) ==
    CountCheck(DebugAssert(dbg, Scan(d, Push(b, " where "), "where", fo.expr, fo.args)),
               fo.args)

\* an insert_one that writes `values (` and `)` around the values whether
\* or not a filter is given
InsertOneBuildValues(d, dbg, tbl, flds, ent, fo) ==
    LET b1 == Push(FieldsSection(PushStr(NewBuilder("insert into "), tbl), flds), ")")
        b3 == ValuesSection(d, Push(b1, " values ("), flds, ent)
    IN  IF b3.err # "" THEN b3
        ELSE IF fo.some THEN InsertWhere(d, dbg, Push(b3, ")"), fo) ELSE Push(b3, ")")

InsertOneBuild(d, dbg, tbl, flds, ent, fo) ==
    LET b1 == Push(FieldsSection(PushStr(NewBuilder("insert into "), tbl), flds), ")")
        b2 == Push(b1, IF fo.some THEN " select " ELSE " values (")
        b3 == ValuesSection(d, b2, flds, ent)
    IN  IF b3.err # "" THEN b3
        ELSE IF fo.some THEN InsertWhere(d, dbg, b3, fo) ELSE Push(b3, ")")

\* a row loop that leaves out a row whose conversion fails
RECURSIVE RowsFromSkipBad(_, _, _, _, _)
RowsFromSkipBad(d, b, flds, rows, r) ==
    IF r > Len(rows) THEN b
    ELSE LET v == ValuesSection(d, Push(PushIf(r > 1, b, ","), "("), flds, rows[r])
         IN  RowsFromSkipBad(d, IF v.err # "" THEN b ELSE Push(v, ")"), flds, rows, r + 1)

RECURSIVE RowsFrom(_, _, _, _, _)
RowsFrom(d, b, flds, rows, r) ==
    IF r > Len(rows) \/ b.err # "" THEN b
    ELSE LET v == ValuesSection(d, Push(PushIf(r > 1, b, ","), "("), flds, rows[r])
         IN  RowsFrom(d, IF v.err # "" THEN v ELSE Push(v, ")"), flds, rows, r + 1)

InsertBuild(d, tbl, flds, rows) ==
    LET b1 == Push(FieldsSection(PushStr(NewBuilder("insert into "), tbl), flds),
                   IF d = "mssql" THEN ")  values " ELSE ") values ")
    IN  RowsFrom(d, b1, flds, rows, 1)

UpdateBuild(d, dbg, tbl, flds, ent, f) ==
    LET b1 == Push(PushStr(NewBuilder("update "), tbl), " set ")
        b2 == SetSection(d, b1, flds, ent)
    IN  CountCheck(WhereOwnQuote(d, dbg, b2, f), f.args)

DeleteBuild(d, dbg, tbl, f) ==
    CountCheck(WhereOwnQuote(d, dbg, PushStr(NewBuilder("delete from "), tbl), f),
               f.args)

CountBuild(d, dbg, tbl, f, ot) ==
    LET b0 == IF ot.some /\ Len(ot.group_by) > 0
              THEN NewBuilder(IF d = "mssql"
                              THEN "select count(*) from (select 1 as n"
                              ELSE "select count(*) from (select 1")
              ELSE NewBuilder("select count(*)")
    IN  Fragments(d, dbg, PushStr(Push(b0, " from "), tbl), f, ot, TRUE)

\* limit statement section of sqlx_query!
LimitSection(d, b, lim, l, o) ==
    IF b.err # "" \/ ~lim THEN b
    ELSE LET b1 == PushBind(d, Push(b, " limit "), I64(l))
             b2 == [b1 EXCEPT !.args = Append(@, I64(l))]
             b3 == PushBind(d, Push(b2, " offset "), I64(o))
         IN  [b3 EXCEPT !.args = Append(@, I64(o))]

SqlxQuery(d, dbg, tbl, flds, f, ot, ord, lim, l, o) ==
    LET b1 == PushStr(Push(SelectSection(NewBuilder("select "), flds), " from "), tbl)
    IN  LimitSection(d, OrderSection(Fragments(d, dbg, b1, f, ot, FALSE), ord),
                     lim, l, o)

MssqlQueryOne(dbg, tbl, flds, f, ot, ord) ==
    LET b1 == PushStr(Push(SelectSection(NewBuilder("select top 1 "), flds), " from "),
                      tbl)
    IN  OrderSection(Fragments("mssql", dbg, b1, f, ot, FALSE), ord)

MssqlQuery(dbg, tbl, flds, f, ot, ord) ==
    LET b1 == PushStr(Push(SelectSection(NewBuilder("select "), flds), " from "), tbl)
    IN  OrderSection(Fragments("mssql", dbg, b1, f, ot, FALSE), ord)

\* a tabular limit section that writes each number before it pushes the
\* parameter
NumLimitSectionEarly(b, l, o) ==
    IF b.err # "" THEN b
    ELSE LET b1 == Push(b, ") sub where _num between (1+")
             b2 == [b1 EXCEPT !.sql = Append(@, [t |-> "@P", n |-> Len(b1.params)])]
             b3 == [b2 EXCEPT !.params = Append(@, I64(o)), !.args = Append(@, I64(o))]
             b4 == Push(b3, ") and (")
             b5 == [b4 EXCEPT !.sql = Append(@, [t |-> "@P", n |-> Len(b4.params)])]
             b6 == Push(b5, "+")
             b7 == [b6 EXCEPT !.sql = Append(@, [t |-> "@P", n |-> Len(b6.params)])]
             b8 == [b7 EXCEPT !.params = Append(@, I64(l)), !.args = Append(@, I64(l))]
         IN  Push(b8, ")")

\* limit statement section of the tabular paginated query: the offset is
\* pushed first and referenced twice, the limit second
NumLimitSection(b, l, o) ==
    IF b.err # "" THEN b
    ELSE LET b1 == Push(b, ") sub where _num between (1+")
             b2 == [b1 EXCEPT !.params = Append(@, I64(o)), !.args = Append(@, I64(o))]
             b3 == [b2 EXCEPT !.sql = Append(@, [t |-> "@P", n |-> Len(b2.params)])]
             b4 == Push(b3, ") and (")
             b5 == [b4 EXCEPT !.sql = Append(@, [t |-> "@P", n |-> Len(b4.params)])]
             b6 == Push(b5, "+")
             b7 == [b6 EXCEPT !.params = Append(@, I64(l)), !.args = Append(@, I64(l))]
             b8 == [b7 EXCEPT !.sql = Append(@, [t |-> "@P", n |-> Len(b7.params)])]
         IN  Push(b8, ")")

MssqlPaged(dbg, tbl, flds, f, ot, ord, l, o) ==
    LET b1 == Push(NumSelectFrom(NewBuilder("select * from (select "), flds, 1),
                   "row_number() over (order by ")
        b2 == IF Len(ord) > 0 THEN PushStr(b1, ord) ELSE Push(b1, "(select 1)")
        b3 == PushStr(Push(Push(b2, ") as _num"), " from "), tbl)
    IN  NumLimitSection(Fragments("mssql", dbg, b3, f, ot, FALSE), l, o)

\* a query_one that leaves the statement uncapped
QueryOneUncapped(d, dbg, tbl, flds, f, ot, ord) ==
    IF d = "mssql" THEN MssqlQuery(dbg, tbl, flds, f, ot, ord)
    ELSE SqlxQuery(d, dbg, tbl, flds, f, ot, ord, FALSE, 0, 0)

\* query_one: limit 1 offset 0 in the sqlx dialects, `top 1` in the tabular one
QueryOneBuild(d, dbg, tbl, flds, f, ot, ord) ==
    IF d = "mssql" THEN MssqlQueryOne(dbg, tbl, flds, f, ot, ord)
    ELSE SqlxQuery(d, dbg, tbl, flds, f, ot, ord, TRUE, 1, 0)

QueryBuild(d, dbg, tbl, flds, f, ot, ord) ==
    IF d = "mssql" THEN MssqlQuery(dbg, tbl, flds, f, ot, ord)
    ELSE SqlxQuery(d, dbg, tbl, flds, f, ot, ord, FALSE, 0, 0)

PagedBuild(d, dbg, tbl, flds, f, ot, ord, l, o) ==
    IF d = "mssql" THEN MssqlPaged(dbg, tbl, flds, f, ot, ord, l, o)
    ELSE SqlxQuery(d, dbg, tbl, flds, f, ot, ord, TRUE, l, o)

----------------------------------------------------------------------------
(* Converting data rows to entities *)

\* the types the built-in from_row of a dialect downcasts to
FromRowSupported(d) ==
    IF d = "mssql"
    THEN {"String", "Vec<u8>", "f64", "f32", "i64", "i32", "i16", "u8", "bool"}
    ELSE {"Vec<u8>", "String", "f64", "f32", "i64", "i32", "i16", "i8", "bool"}

\* the from_row calls made for one row, up to the first that fails
RECURSIVE RowCalls(_, _, _, _, _, _)
RowCalls(d, flds, ent, r, i, calls) ==
    IF i > NF THEN [calls |-> calls, err |-> ""]
    ELSE IF Skipped(flds, FNames[i]) THEN RowCalls(d, flds, ent, r, i + 1, calls)
         ELSE LET c == Append(calls, [row |-> r, fd |-> FNames[i]]) IN
              IF ent[i].typ \in FromRowSupported(d)
              THEN RowCalls(d, flds, ent, r, i + 1, c)
              ELSE [calls |-> c, err |-> "from_row"]

RECURSIVE Materialize(_, _, _, _, _, _)
Materialize(d, flds, ent, n, r, calls) ==
    IF r > n THEN [calls |-> calls, err |-> ""]
    ELSE LET m == RowCalls(d, flds, ent, r, 1, calls) IN
         IF m.err # "" THEN m ELSE Materialize(d, flds, ent, n, r + 1, m.calls)

----------------------------------------------------------------------------
(* The table behind the transport: the rows the insert statements stored, *)
(* and the data rows a select statement gets back                         *)

\* the items of a comma separated list in statement text, from position i up
\* to the first of the stop texts
RECURSIVE Items(_, _, _, _, _)
Items(sql, i, stops, cur, acc) ==
    IF i > Len(sql) \/ sql[i].t \in stops
    THEN IF cur = <<>> THEN acc ELSE Append(acc, cur)
    ELSE IF sql[i].t = ","
         THEN Items(sql, i + 1, stops, <<>>, IF cur = <<>> THEN acc ELSE Append(acc, cur))
         ELSE Items(sql, i + 1, stops, Append(cur, sql[i].t), acc)

\* the column list of `insert into t(c1,..,cn) ..`
InsertColumns(sql) ==
    LET open == CHOOSE i \in 1..Len(sql) :
                    sql[i] = Lit("(") /\ \A j \in 1..(i - 1) : sql[j] # Lit("(")
        its == Items(sql, open + 1, {")", ") values ", ")  values "}, <<>>, <<>>)
    IN  [j \in 1..Len(its) |-> its[j][1]]

\* the rows an answered insert statement stored: the bound values in
\* tuples of one value per column, as many as the transport reports
StoredBy(st, r) ==
    IF ~r.ok \/ Head(st.sql) # Lit("insert into ") THEN <<>>
    ELSE LET cols == InsertColumns(st.sql)
             nc == Len(cols)
         IN  IF nc = 0 \/ Cardinality({cols[j] : j \in 1..nc}) # nc THEN <<>>
             ELSE LET k == IF r.rows * nc <= Len(st.params) THEN r.rows
                           ELSE Len(st.params) \div nc
                  IN  [t \in 1..k |->
                          [co \in {cols[j] : j \in 1..nc} |->
                              st.params[(t - 1) * nc +
                                        (CHOOSE j \in 1..nc : cols[j] = co)]]]

RECURSIVE StoredUpTo(_)
StoredUpTo(j) ==
    IF j = 0 THEN <<>> ELSE StoredUpTo(j - 1) \o StoredBy(sent[j], received[j])

\* the rows of the table
Table == StoredUpTo(Len(sent))

\* the select list of a statement: the column read and the name it is
\* returned under
SelectItems(sql) ==
    LET its == Items(sql, 2, {" from ", "row_number() over (order by "}, <<>>, <<>>)
    IN  [j \in 1..Len(its) |-> [col |-> its[j][1], name |-> its[j][Len(its[j])]]]

\* the k-th data row a select statement gets: the stored row when the
\* table has one, any other data otherwise
Fetched(b, k) ==
    LET its == SelectItems(b.sql) IN
    [fd \in {its[j].name : j \in 1..Len(its)} |->
        LET j == CHOOSE x \in 1..Len(its) : its[x].name = fd IN
        IF k <= Len(Table) /\ its[j].col \in DOMAIN Table[k]
        THEN Table[k][its[j].col].val
        ELSE 20 * k + j]

\* a conversion that fills an empty entity instead of a clone of the
\* template
DecodeBlank(flds, ent, row) ==
    [i \in 1..NF |->
        IF Skipped(flds, FNames[i]) \/ FNames[i] \notin DOMAIN row
        THEN Val(ent[i].typ, 0)
        ELSE Val(ent[i].typ, row[FNames[i]])]

\* `entity.clone()` filled by from_row for every field not excluded
Decode(flds, ent, row) ==
    [i \in 1..NF |->
        IF Skipped(flds, FNames[i]) \/ FNames[i] \notin DOMAIN row THEN ent[i]
        ELSE Val(ent[i].typ, row[FNames[i]])]

----------------------------------------------------------------------------
(* The inputs the caller may supply *)

\* the characters a scanned fragment is made of
Chars == {"?", "'"}

\* the column overrides a caller sets: none, exclude, a column expression
Overrides == {"", "-", "c"}

\* the entity: field i holds 10 + i; at most one field has a type no
\* built-in converter accepts
EntityOf(bad) == [i \in 1..NF |-> Val(IF i = bad THEN "u32" ELSE "i64", 10 + i)]
Entities == {EntityOf(bad) : bad \in 0..NF}

\* filter arguments: argument i holds 100 + i; at most one has a type no
\* built-in converter accepts
ArgList(k, bad) == [i \in 1..k |-> Val(IF i = bad THEN "u32" ELSE "i64", 100 + i)]
GoodArgLists(n) == {ArgList(k, 0) : k \in 0..n}
ArgLists(n) == {ArgList(k, bad) : k \in 0..n, bad \in 0..n}

FiltersOf(exprs, argls) == {[expr |-> e, args |-> a] : e \in exprs, a \in argls}

OthersOf(sides) ==
    {NoOther} \cup
    {[some |-> TRUE, join_on |-> j, group_by |-> g, having |-> h] :
        j \in sides, g \in {<<>>, <<"g">>}, h \in sides}

\* rows for insert(rows): field i of row r holds 10 * (r + 1) + i; at most
\* one cell has a type no built-in converter accepts
RowsOf(k, br, bi) ==
    [r \in 1..k |-> [i \in 1..NF |->
        Val(IF r = br /\ i = bi THEN "u32" ELSE "i64", 10 * (r + 1) + i)]]
RowLists(n) == {RowsOf(k, br, bi) : k \in 0..n, br \in 0..n, bi \in 1..NF}

\* order strings
Orders == {<<>>, <<"o">>}

\* (limit, offset) pairs
Pages == {<<3, 1>>}

\* what the transport answers: a failure, or a number of rows (affected or
\* returned)
Failure == [ok |-> FALSE, rows |-> 0]
Rows(n) == [ok |-> TRUE, rows |-> n]

----------------------------------------------------------------------------
(* The state machine *)

NoBuilder ==
    [sql |-> <<>>, params |-> <<>>, args |-> <<>>, idx |-> 0,
     quo |-> FALSE, binds |-> <<>>, err |-> "", stop |-> [frag |-> "", pos |-> 0]]

NoCall == [op |-> "", filter |-> NoFilter, other |-> NoOther, rows |-> <<>>]

Returned(status, n) == [status |-> status, count |-> n, sql |-> <<>>, args |-> <<>>]

\* anyhow!("sql:`{}` args:[{}]  {}", builder.sql(), args, err)
Annotated(status, b) == [status |-> status, count |-> 0, sql |-> b.sql, args |-> b.args]

\* the tasks that build statements at the same time
Tasks == {1, 2}

\* a task that has not made its model yet
IdleTask ==
    [pc |-> "idle", model |-> [d |-> "", flds |-> NewFields], op |-> "",
     filter |-> [expr |-> <<>>, args |-> <<>>], built |-> NoBuilder,
     result |-> Returned("", 0)]

InitOf(names, ents) ==
    /\ debugBuild \in BOOLEAN
    /\ typeName \in names
    /\ entity \in ents
    /\ table = NewTable(typeName)
    /\ fields = NewFields
    /\ stage = "Model"
    /\ dialect = ""
    /\ order = <<>>
    /\ limit = 0
    /\ offset = 0
    /\ hist = <<>>
    /\ flt = NewFilter
    /\ applied = <<>>
    /\ call = NoCall
    /\ built = NoBuilder
    /\ sent = <<>>
    /\ outcome = Returned("", 0)
    /\ fromRow = <<>>
    /\ received = <<>>
    /\ returned = <<>>
    /\ tasks = [t \in Tasks |-> IdleTask]

InitWith(ents) == InitOf({EntityName}, ents)

\* *model.fields.get_mut(field).unwrap() = value
SetField ==
    /\ stage = "Model"
    /\ \E fd \in DOMAIN fields, co \in Overrides : fields' = [fields EXCEPT ![fd] = co]
    /\ UNCHANGED <<flt, applied, debugBuild, typeName, entity, table, stage, dialect,
                   order, limit, offset, hist, call, built, sent, outcome, fromRow,
                   received, returned, tasks>>

\* the keys a caller may put into the map: a field name or any other string
Keys == {FNames[i] : i \in 1..NF} \cup {"x"}

\* model.fields.insert(key, value): the map is a public HashMap
InsertField ==
    /\ stage = "Model"
    /\ \E k \in Keys, co \in Overrides :
           fields' = [f \in DOMAIN fields \cup {k} |-> IF f = k THEN co ELSE fields[f]]
    /\ UNCHANGED <<flt, applied, debugBuild, typeName, entity, table, stage, dialect,
                   order, limit, offset, hist, call, built, sent, outcome, fromRow,
                   received, returned, tasks>>

\* model.fields.remove(key)
RemoveField ==
    /\ stage = "Model"
    /\ \E k \in DOMAIN fields : fields' = [f \in DOMAIN fields \ {k} |-> fields[f]]
    /\ UNCHANGED <<flt, applied, debugBuild, typeName, entity, table, stage, dialect,
                   order, limit, offset, hist, call, built, sent, outcome, fromRow,
                   received, returned, tasks>>

\* a bind that hands back the ordered builder
AfterBindOrdered == "OrderExecutor"

\* an order_by that hands back the builder it was called on
AfterOrderBySame == "Executor"

\* the type a builder method hands back to the caller
AfterBind == "Executor"
AfterOrderBy == "OrderExecutor"
AfterLimit == "LimitExecutor"

\* model.bind(executor)
Bind ==
    /\ stage = "Model"
    /\ \E d \in Dialects : dialect' = d
    /\ order' = <<>>
    /\ limit' = 0
    /\ offset' = 0
    /\ stage' = AfterBind
    /\ hist' = Append(hist, "bind")
    /\ UNCHANGED <<flt, applied, debugBuild, typeName, entity, table, fields, call,
                   built, sent, outcome, fromRow, received, returned, tasks>>

\* Executor::order_by
OrderBy ==
    /\ stage = "Executor"
    /\ \E o \in Orders : order' = o
    /\ stage' = AfterOrderBy
    /\ hist' = Append(hist, "order_by")
    /\ UNCHANGED <<flt, applied, debugBuild, typeName, entity, table, fields, dialect,
                   limit, offset, call, built, sent, outcome, fromRow, received,
                   returned, tasks>>

\* OrderExecutor::limit
Limit ==
    /\ stage = "OrderExecutor"
    /\ \E p \in Pages : limit' = p[1] /\ offset' = p[2]
    /\ stage' = AfterLimit
    /\ hist' = Append(hist, "limit")
    /\ UNCHANGED <<flt, applied, debugBuild, typeName, entity, table, fields, dialect,
                   order, call, built, sent, outcome, fromRow, received, returned,
                   tasks>>

\* an execute that submits the statement again when the transport fails
ExecuteAgain(b, replies) ==
    \E r \in replies :
        /\ sent' = IF r.ok THEN Append(sent, [sql |-> b.sql, params |-> b.params])
                  ELSE sent \o <<[sql |-> b.sql, params |-> b.params],
                                 [sql |-> b.sql, params |-> b.params]>>
        /\ received' = Append(received, r)
        /\ returned' = returned
        /\ outcome' = IF r.ok THEN Returned("ok", r.rows) ELSE Annotated("transport", b)
        /\ fromRow' = fromRow

\* `builder.build().execute(executor).await` and the match on its result
Execute(b, replies) ==
    \E r \in replies :
        /\ sent' = Append(sent, [sql |-> b.sql, params |-> b.params])
        /\ received' = Append(received, r)
        /\ returned' = returned
        /\ outcome' = IF r.ok THEN Returned("ok", r.rows) ELSE Annotated("transport", b)
        /\ fromRow' = fromRow

\* fetch_one / query + into_row of count, and reading the scalar
FetchCount(b, replies) ==
    \E r \in replies :
        /\ sent' = Append(sent, [sql |-> b.sql, params |-> b.params])
        /\ received' = Append(received, r)
        /\ returned' = returned
        /\ outcome' = IF ~r.ok THEN Annotated("transport", b)
                      ELSE IF r.rows = 0
                           THEN Annotated(IF dialect = "mssql" THEN "none"
                                          ELSE "transport", b)
                           ELSE Returned("ok", r.rows)
        /\ fromRow' = fromRow

\* fetch_all / query, the conversion of the rows, and what is handed back:
\* every entity, or for query_one the last one converted
FetchRows(b, replies, one) ==
    \E r \in replies :
        LET n == IF one /\ dialect = "mssql" /\ r.rows > 1 THEN 1 ELSE r.rows
            m == Materialize(dialect, fields, entity, n, 1, <<>>)
            es == [k \in 1..n |-> Decode(fields, entity, Fetched(b, k))]
        IN  /\ sent' = Append(sent, [sql |-> b.sql, params |-> b.params])
            /\ received' = Append(received, r)
            /\ IF ~r.ok
               THEN /\ outcome' = Annotated("transport", b)
                    /\ fromRow' = fromRow
                    /\ returned' = returned
               ELSE IF one /\ dialect = "mssql" /\ n = 0
                    THEN /\ outcome' = Annotated("notfound", b)
                         /\ fromRow' = fromRow
                         /\ returned' = returned
                    ELSE /\ fromRow' = m.calls
                         /\ outcome' = IF m.err # "" THEN Returned(m.err, 0)
                                       ELSE IF one
                                            THEN IF n = 0 THEN Returned("notfound", 0)
                                                 ELSE Returned("ok", 1)
                                            ELSE Returned("ok", n)
                         /\ returned' = IF m.err # "" \/ n = 0 THEN <<>>
                                        ELSE IF one THEN <<es[n]>> ELSE es

\* a terminal operation takes self: the builder is gone afterwards
Consume(op, c, b) ==
    /\ stage' = "consumed"
    /\ hist' = Append(hist, op)
    /\ call' = c
    /\ built' = b
    /\ UNCHANGED <<flt, applied, debugBuild, typeName, entity, table, fields, dialect,
                   order, tasks>>

Stopped(b) ==
    /\ sent' = sent
    /\ received' = received
    /\ returned' = returned
    /\ outcome' = Returned(b.err, 0)
    /\ fromRow' = fromRow

InsertOne(filters, replies) ==
    /\ stage = "Executor"
    /\ \E fo \in {NoFilter} \cup {SomeFilter(f) : f \in filters} :
        LET b == InsertOneBuild(dialect, debugBuild, table, fields, entity, fo) IN
        /\ Consume("insert_one", [NoCall EXCEPT !.op = "insert_one", !.filter = fo], b)
        /\ IF b.err # "" THEN Stopped(b) ELSE Execute(b, replies)
    /\ UNCHANGED <<limit, offset>>

Insert(rowlists, replies) ==
    /\ stage = "Executor"
    /\ \E data \in rowlists :
        LET b == InsertBuild(dialect, table, fields, data) IN
        /\ Consume("insert", [NoCall EXCEPT !.op = "insert", !.rows = data], b)
        /\ IF b.err # "" THEN Stopped(b) ELSE Execute(b, replies)
    /\ UNCHANGED <<limit, offset>>

Update(filters, replies) ==
    /\ stage = "Executor"
    /\ \E f \in filters :
        LET b == UpdateBuild(dialect, debugBuild, table, fields, entity, f) IN
        /\ Consume("update", [NoCall EXCEPT !.op = "update", !.filter = SomeFilter(f)], b)
        /\ IF b.err # "" THEN Stopped(b) ELSE Execute(b, replies)
    /\ UNCHANGED <<limit, offset>>

Delete(filters, replies) ==
    /\ stage = "Executor"
    /\ \E f \in filters :
        LET b == DeleteBuild(dialect, debugBuild, table, f) IN
        /\ Consume("delete", [NoCall EXCEPT !.op = "delete", !.filter = SomeFilter(f)], b)
        /\ IF b.err # "" THEN Stopped(b) ELSE Execute(b, replies)
    /\ UNCHANGED <<limit, offset>>

Count(filters, others, replies) ==
    /\ stage = "Executor"
    /\ \E f \in filters, ot \in others :
        LET b == CountBuild(dialect, debugBuild, table, f, ot) IN
        /\ Consume("count", [NoCall EXCEPT !.op = "count", !.filter = SomeFilter(f),
                                           !.other = ot], b)
        /\ IF b.err # "" THEN Stopped(b) ELSE FetchCount(b, replies)
    /\ UNCHANGED <<limit, offset>>

QueryOne(filters, others, replies) ==
    /\ stage = "OrderExecutor"
    /\ \E f \in filters, ot \in others :
        LET b == QueryOneBuild(dialect, debugBuild, table, fields, f, ot, order) IN
        /\ Consume("query_one", [NoCall EXCEPT !.op = "query_one",
                                               !.filter = SomeFilter(f), !.other = ot], b)
        /\ IF b.err # "" THEN Stopped(b) ELSE FetchRows(b, replies, TRUE)
    /\ limit' = IF dialect = "mssql" THEN limit ELSE 1
    /\ offset' = IF dialect = "mssql" THEN offset ELSE 0

Query(filters, others, replies) ==
    /\ stage = "OrderExecutor"
    /\ \E f \in filters, ot \in others :
        LET b == QueryBuild(dialect, debugBuild, table, fields, f, ot, order) IN
        /\ Consume("query", [NoCall EXCEPT !.op = "query", !.filter = SomeFilter(f),
                                           !.other = ot], b)
        /\ IF b.err # "" THEN Stopped(b) ELSE FetchRows(b, replies, FALSE)
    /\ UNCHANGED <<limit, offset>>

PagedQuery(filters, others, replies) ==
    /\ stage = "LimitExecutor"
    /\ \E f \in filters, ot \in others :
        LET b == PagedBuild(dialect, debugBuild, table, fields, f, ot, order,
                            limit, offset) IN
        /\ Consume("paged_query", [NoCall EXCEPT !.op = "paged_query",
                                                 !.filter = SomeFilter(f), !.other = ot], b)
        /\ IF b.err # "" THEN Stopped(b) ELSE FetchRows(b, replies, FALSE)
    /\ UNCHANGED <<limit, offset>>

----------------------------------------------------------------------------
(* Spec: every builder chain, over small fragments, with every field     *)
(* mapping, entities with an unconvertible field and a failing transport *)

CoreFilters == FiltersOf({<<>>, <<"?">>, <<"'">>}, ArgLists(MaxCoreArgs))
CoreOthers ==
    {NoOther,
     [some |-> TRUE, join_on |-> <<"?">>, group_by |-> <<>>, having |-> <<>>],
     [some |-> TRUE, join_on |-> <<>>, group_by |-> <<"g">>, having |-> <<"?">>]}
CoreRows == RowLists(MaxRows)
ExecReplies == {Failure, Rows(1)}
RowReplies == {Failure, Rows(0), Rows(2)}

Init == InitWith(Entities)

Next ==
    \/ SetField
    \/ Bind
    \/ OrderBy
    \/ Limit
    \/ InsertOne(CoreFilters, ExecReplies)
    \/ Insert(CoreRows, ExecReplies)
    \/ Update(CoreFilters, ExecReplies)
    \/ Delete(CoreFilters, ExecReplies)
    \/ Count(CoreFilters, CoreOthers, RowReplies)
    \/ QueryOne(CoreFilters, CoreOthers, RowReplies)
    \/ Query(CoreFilters, CoreOthers, RowReplies)
    \/ PagedQuery(CoreFilters, CoreOthers, RowReplies)

Spec == Init /\ [][Next]_vars

(* SpecScan: the placeholder rewriter over every fragment up to the bounds, *)
(* default mapping, convertible values, a transport that answers            *)

ScanFilters == FiltersOf(SeqsUpTo(Chars, MaxExpr), GoodArgLists(MaxArgs))
ScanOthers == OthersOf(SeqsUpTo(Chars, MaxSide))
ScanReplies == {Rows(1)}

InitScan == InitWith({EntityOf(0)})

NextScan ==
    \/ Bind
    \/ OrderBy
    \/ Limit
    \/ InsertOne(ScanFilters, ScanReplies)
    \/ Update(ScanFilters, ScanReplies)
    \/ Delete(ScanFilters, ScanReplies)
    \/ Count(ScanFilters, ScanOthers, ScanReplies)
    \/ QueryOne(ScanFilters, ScanOthers, ScanReplies)
    \/ Query(ScanFilters, ScanOthers, ScanReplies)
    \/ PagedQuery(ScanFilters, ScanOthers, ScanReplies)

SpecScan == InitScan /\ [][NextScan]_vars

----------------------------------------------------------------------------
(* Deriving the table name *)

\* entity type names: up to MaxName characters, uppercase, lowercase or "_"
TypeNames == SeqsUpTo({"A", "B", "s", "_"}, MaxName) \ {<<>>}

InitName == InitOf(TypeNames, {EntityOf(0)}) /\ debugBuild = FALSE

NextName == SetField \/ Bind

SpecName == InitName /\ [][NextName]_vars

----------------------------------------------------------------------------
(* The caller changing the mapping through the public map *)

NoFilters == {}

InitMap == InitWith({EntityOf(0)}) /\ debugBuild = FALSE

NextMap ==
    \/ SetField
    \/ InsertField
    \/ RemoveField
    \/ Bind
    \/ InsertOne(NoFilters, ScanReplies)

SpecMap == InitMap /\ [][NextMap]_vars

----------------------------------------------------------------------------
(* Pages of every size, answered by a database of a few rows *)

\* the width the 64-bit integers of limit and offset have in the model
I64Bits == 4
I64Max == 2^(I64Bits - 1) - 1

\* the rows of the table the database holds
MaxTable == 4

PageSizes == {0, 1, 2, 3, I64Max}
PageInputs == {<<l, o>> : l \in PageSizes, o \in PageSizes}

\* OrderExecutor::limit with any page
LimitOf(pages) ==
    /\ stage = "OrderExecutor"
    /\ \E p \in pages : limit' = p[1] /\ offset' = p[2]
    /\ stage' = AfterLimit
    /\ hist' = Append(hist, "limit")
    /\ UNCHANGED <<flt, applied, debugBuild, typeName, entity, table, fields, dialect,
                   order, call, built, sent, outcome, fromRow, received, returned,
                   tasks>>

PageFilters ==
    FiltersOf({<<>>}, {ArgList(0, 0)}) \cup FiltersOf({<<"?">>}, {ArgList(1, 0)})
PageOthers == {NoOther}

InitPage == InitWith({EntityOf(0)}) /\ debugBuild = FALSE

NextPage ==
    \/ Bind
    \/ OrderBy
    \/ LimitOf(PageInputs)
    \/ PagedQuery(PageFilters, PageOthers, RowReplies)

SpecPage == InitPage /\ [][NextPage]_vars

----------------------------------------------------------------------------
(* Order strings that hold `?` and `'` *)

MaxOrder == 2
OrderStrings == SeqsUpTo({"?", "'", "o"}, MaxOrder)

\* Executor::order_by with any order string
OrderByOf(orders) ==
    /\ stage = "Executor"
    /\ \E o \in orders : order' = o
    /\ stage' = AfterOrderBy
    /\ hist' = Append(hist, "order_by")
    /\ UNCHANGED <<flt, applied, debugBuild, typeName, entity, table, fields, dialect,
                   limit, offset, call, built, sent, outcome, fromRow, received,
                   returned, tasks>>

OrderFilters == FiltersOf(SeqsUpTo(Chars, MaxExpr), GoodArgLists(MaxCoreArgs))

InitOrder == InitWith({EntityOf(0)})

NextOrder ==
    \/ Bind
    \/ OrderByOf(OrderStrings)
    \/ Limit
    \/ QueryOne(OrderFilters, CoreOthers, ScanReplies)
    \/ Query(OrderFilters, CoreOthers, ScanReplies)
    \/ PagedQuery(OrderFilters, CoreOthers, ScanReplies)

SpecOrder == InitOrder /\ [][NextOrder]_vars

----------------------------------------------------------------------------
(* Inserting an entity and reading it back through a second model *)

\* the operations one run issues, each on a model of its own
MaxStatements == 2

TripTypes == {"i64", "&str", "i8", "u8"}
TripEntities == {[i \in 1..NF |-> Val(ty[i], 10 + i)] : ty \in [1..NF -> TripTypes]}

\* a template of the same type whose fields hold other values
Blank(ent) == [i \in 1..NF |-> Val(ent[i].typ, 0)]

\* Model::new(&template) with the overrides of the first model, bound to
\* the same executor
Rebind ==
    /\ stage = "consumed"
    /\ Cardinality({i \in 1..Len(hist) : hist[i] = "bind"}) < MaxStatements
    /\ entity' = Blank(entity)
    /\ order' = <<>>
    /\ limit' = 0
    /\ offset' = 0
    /\ stage' = AfterBind
    /\ hist' = Append(hist, "bind")
    /\ UNCHANGED <<flt, applied, debugBuild, typeName, table, fields, dialect, call,
                   built, sent, outcome, fromRow, received, returned, tasks>>

\* the answer of the table to a statement capped at one row
TableReplies == {Rows(IF Len(Table) > 0 THEN 1 ELSE 0)}

InitTrip == InitWith(TripEntities) /\ debugBuild = FALSE

NextTrip ==
    \/ SetField
    \/ Bind
    \/ Rebind
    \/ OrderBy
    \/ InsertOne(NoFilters, ExecReplies)
    \/ QueryOne(PageFilters, PageOthers, TableReplies)

SpecTrip == InitTrip /\ [][NextTrip]_vars

----------------------------------------------------------------------------
(* Two tasks, each building a statement on a model of its own and waiting *)
(* for the transport                                                      *)

TaskDialects == {"postgres", "mssql"}
TaskMappings ==
    {NewFields, [NewFields EXCEPT !["id"] = "-"], [NewFields EXCEPT !["name"] = "c"]}
TaskOps == {"update", "delete", "count"}
TaskFilters ==
    FiltersOf({<<>>}, {ArgList(0, 0)}) \cup FiltersOf({<<"?">>}, GoodArgLists(1))

\* a model slot that the tasks share: the model bound last is everyone's
SharedModel(t) ==
    IF \E u \in Tasks \ {t} : tasks[u].pc # "idle"
    THEN tasks[CHOOSE u \in Tasks \ {t} : tasks[u].pc # "idle"].model
    ELSE tasks[t].model

\* the *Model struct an operation consumes: owned by the task
OwnModel(t) == tasks[t].model

\* the statement a terminal operation builds from its model and its filter
TaskStatement(op, m, f) ==
    IF op = "update" THEN UpdateBuild(m.d, debugBuild, table, m.flds, entity, f)
    ELSE IF op = "delete" THEN DeleteBuild(m.d, debugBuild, table, f)
         ELSE CountBuild(m.d, debugBuild, table, f, NoOther)

\* what the operation returns once the transport has answered
TaskResult(op, d, b, r) ==
    IF ~r.ok THEN Annotated("transport", b)
    ELSE IF op = "count" /\ r.rows = 0
         THEN Annotated(IF d = "mssql" THEN "none" ELSE "transport", b)
         ELSE Returned("ok", r.rows)

TaskFrame ==
    UNCHANGED <<debugBuild, typeName, entity, table, fields, stage, dialect, order,
                limit, offset, hist, call, built, outcome, fromRow, received,
                returned, flt, applied>>

\* Model::new(..).bind(executor) in a task
TaskBind ==
    \E t \in Tasks, d \in TaskDialects, m \in TaskMappings :
        /\ tasks[t].pc = "idle"
        /\ tasks' = [tasks EXCEPT ![t].pc = "bound", ![t].model = [d |-> d, flds |-> m]]
        /\ sent' = sent
        /\ TaskFrame

\* the synchronous part of a terminal operation, up to the await on the
\* transport
TaskSubmit ==
    \E t \in Tasks, op \in TaskOps, f \in TaskFilters :
        LET b == TaskStatement(op, OwnModel(t), f) IN
        /\ tasks[t].pc = "bound"
        /\ tasks' = [tasks EXCEPT ![t].op = op, ![t].filter = f, ![t].built = b,
                                  ![t].pc = IF b.err # "" THEN "done" ELSE "awaiting",
                                  ![t].result = IF b.err # "" THEN Returned(b.err, 0)
                                                ELSE @]
        /\ sent' = IF b.err # "" THEN sent
                   ELSE Append(sent, [sql |-> b.sql, params |-> b.params])
        /\ TaskFrame

\* the task is resumed with the transport's answer
TaskResume ==
    \E t \in Tasks, r \in ExecReplies :
        /\ tasks[t].pc = "awaiting"
        /\ tasks' = [tasks EXCEPT ![t].pc = "done",
                                  ![t].result = TaskResult(tasks[t].op, OwnModel(t).d,
                                                           tasks[t].built, r)]
        /\ sent' = sent
        /\ TaskFrame

InitTasks == InitWith({EntityOf(0)}) /\ debugBuild = FALSE

NextTasks == TaskBind \/ TaskSubmit \/ TaskResume

SpecTasks == InitTasks /\ [][NextTasks]_vars

----------------------------------------------------------------------------
(* Composing a Filter *)

\* the (fragment, arguments) pairs handed to and / or / if_and / if_or
FilterItems ==
    {[frag |-> fr, args |-> a] : fr \in {<<>>, <<"a">>, <<"?">>},
                                a \in {ArgList(0, 0), ArgList(1, 0)}}

\* one call on the Filter, remembered with its separator, condition and item
Composed(sep, condition, item) ==
    /\ Len(applied) < MaxCalls
    /\ applied' = Append(applied, [sep |-> sep, cond |-> condition,
                                   frag |-> item.frag, args |-> item.args])
    /\ UNCHANGED <<debugBuild, typeName, entity, table, fields, stage, dialect, order,
                   limit, offset, hist, call, built, sent, outcome, fromRow, received,
                   returned, tasks>>

FilterAnd ==
    \E item \in FilterItems :
        flt' = and(flt, item) /\ Composed(" and ", TRUE, item)

FilterOr ==
    \E item \in FilterItems :
        flt' = or(flt, item) /\ Composed(" or ", TRUE, item)

FilterIfAnd ==
    \E condition \in BOOLEAN, item \in FilterItems :
        flt' = if_and(flt, condition, item) /\ Composed(" and ", condition, item)

FilterIfOr ==
    \E condition \in BOOLEAN, item \in FilterItems :
        flt' = if_or(flt, condition, item) /\ Composed(" or ", condition, item)

InitFilter == InitWith({EntityOf(0)}) /\ debugBuild = FALSE

NextFilter == FilterAnd \/ FilterOr \/ FilterIfAnd \/ FilterIfOr

SpecFilter == InitFilter /\ [][NextFilter]_vars

----------------------------------------------------------------------------
(* Queries under a Filter the caller composed and keeps *)

\* Filter::default().and(expr, args), before the model is bound
ComposeFirst == stage = "Model" /\ applied = <<>> /\ FilterAnd

\* the Filter handed to the operation by reference
CallerFilter == {flt}

InitClone == InitWith(Entities) /\ debugBuild = FALSE

NextClone ==
    \/ ComposeFirst
    \/ SetField
    \/ Bind
    \/ OrderBy
    \/ Limit
    \/ QueryOne(CallerFilter, PageOthers, RowReplies)
    \/ Query(CallerFilter, PageOthers, RowReplies)
    \/ PagedQuery(CallerFilter, PageOthers, RowReplies)

SpecClone == InitClone /\ [][NextClone]_vars

----------------------------------------------------------------------------
(* What the claims speak of, read off the inputs of the call *)

Tagged(name, str) == [i \in 1..Len(str) |-> [frag |-> name, pos |-> i, ch |-> str[i]]]

JoinText(c) == IF c.other.some THEN c.other.join_on ELSE <<>>
WhereText(c) == IF c.filter.some THEN c.filter.expr ELSE <<>>
HavingText(c) ==
    IF c.other.some /\ c.other.group_by # <<>> THEN c.other.having ELSE <<>>

\* the characters of the fragments the operation scans, in scan order
ScanText(c) ==
    IF c.op \in {"count", "query_one", "query", "paged_query"}
    THEN Tagged("join", JoinText(c)) \o Tagged("where", WhereText(c))
             \o Tagged("having", HavingText(c))
    ELSE Tagged("where", WhereText(c))

QuotesBefore(st, i) == Cardinality({j \in 1..(i - 1) : st[j].ch = "'"})
Unquoted(st, i) == st[i].ch = "?" /\ QuotesBefore(st, i) % 2 = 0
Quoted(st, i) == st[i].ch = "?" /\ QuotesBefore(st, i) % 2 = 1
Placeholders(st) == {i \in 1..Len(st) : Unquoted(st, i)}
\* the n-th unquoted `?` in scan order
NthPlaceholder(st, n) ==
    CHOOSE i \in Placeholders(st) :
        Cardinality({j \in Placeholders(st) : j < i}) = n - 1
Site(st, i) == [frag |-> st[i].frag, pos |-> st[i].pos]

\* the places where a debug assertion looks at the quote parity: the end of
\* the join on, where and having sections
SectionEnds(c) ==
    IF c.op \in {"count", "query_one", "query", "paged_query"}
    THEN {Len(JoinText(c)), Len(JoinText(c)) + Len(WhereText(c)), Len(ScanText(c))}
    ELSE {Len(ScanText(c))}
EvenAt(st, e) == QuotesBefore(st, e + 1) % 2 = 0

\* the bound values that precede the filter arguments
FieldValues(c) ==
    IF c.op \in {"insert_one", "update"}
    THEN LET idx == {i \in 1..NF : ~(fields[FNames[i]] = "-")}
             F[n \in 0..NF] ==
                 IF n = 0 THEN <<>>
                 ELSE IF n \in idx THEN Append(F[n - 1], entity[n]) ELSE F[n - 1]
         IN  F[NF]
    ELSE <<>>

Convertible(vs) == \A i \in 1..Len(vs) : vs[i].typ \in Supported(dialect)

ScanOps == {"update", "delete", "count", "query_one", "query", "paged_query"}

\* the build succeeded and the i-th unquoted `?` took filter.args[i]
BoundInOrder(c) ==
    LET st == ScanText(c)
        k  == Cardinality(Placeholders(st))
        nf == Len(FieldValues(c))
    IN  /\ built.err = ""
        /\ Len(built.binds) = k
        /\ built.idx = k
        /\ \A i \in 1..k :
            /\ built.binds[i] = [frag |-> st[NthPlaceholder(st, i)].frag,
                                 pos |-> st[NthPlaceholder(st, i)].pos, arg |-> i]
            /\ built.params[nf + i] = c.filter.args[i]

C1Case ==
    /\ call.op \in ScanOps
    /\ Len(call.filter.args) = Cardinality(Placeholders(ScanText(call)))
    /\ Convertible(call.filter.args)

\* C1 as stated: k unquoted `?` and k convertible arguments: the build
\* succeeds and the i-th unquoted `?` is bound to filter.args[i].
C1_AsStated == C1Case => BoundInOrder(call)

\* C1 (amended): with k unquoted `?` in the scanned fragments and k
\* convertible arguments, the build succeeds, converts exactly k filter
\* arguments and binds the i-th unquoted `?` in scan order to filter.args[i],
\* provided that in a build with debug assertions the quote parity is even
\* at the end of the join on, where and having sections.
C1_PlaceholdersBoundInOrder ==
    (/\ C1Case
     /\ debugBuild => \A e \in SectionEnds(call) : EvenAt(ScanText(call), e))
        => BoundInOrder(call)

\* three placeholders spread over several fragments were bound
C1_Witness ==
    /\ call.op = "count"
    /\ C1Case
    /\ Cardinality(Placeholders(ScanText(call))) = 3
    /\ Cardinality({built.binds[i].frag : i \in 1..Len(built.binds)}) = 3
    /\ Len(sent) = 1

C2Ops == ScanOps \cup {"insert_one"}

\* one argument too few: overflow at the first `?` with no argument left
Overflows(c) ==
    LET st == ScanText(c)
        k  == Cardinality(Placeholders(st))
    IN  /\ built.err = "overflow"
        /\ outcome.status = "overflow"
        /\ built.stop = Site(st, NthPlaceholder(st, k))
        /\ Len(built.binds) = k - 1

\* one argument too many: mismatch once every `?` has been rewritten
Mismatches(c) ==
    LET st == ScanText(c)
        k  == Cardinality(Placeholders(st))
    IN  /\ built.err = "mismatch"
        /\ outcome.status = "mismatch"
        /\ Len(built.binds) = k
        /\ \A i \in 1..k : built.binds[i].pos = st[NthPlaceholder(st, i)].pos

TooFew(c) ==
    /\ c.op \in C2Ops
    /\ c.filter.some
    /\ Len(c.filter.args) + 1 = Cardinality(Placeholders(ScanText(c)))
    /\ Convertible(c.filter.args)

TooMany(c) ==
    /\ c.op \in C2Ops
    /\ c.filter.some
    /\ Len(c.filter.args) = Cardinality(Placeholders(ScanText(c))) + 1
    /\ Convertible(c.filter.args)

\* C2 as stated: k - 1 arguments give the overflow error at the first `?`
\* left without an argument, k + 1 arguments the mismatch error after the
\* whole scan.
C2_AsStated ==
    /\ TooFew(call) => Overflows(call)
    /\ TooMany(call) => Mismatches(call)

\* C2 (amended): with convertible arguments, k - 1 arguments give the
\* overflow error at the first `?` left without an argument and k + 1
\* arguments give the mismatch error after every fragment was scanned,
\* provided that in a build with debug assertions the quote parity is even
\* at every section end reached before the error.
C2_ArityErrors ==
    LET st == ScanText(call)
        k  == Cardinality(Placeholders(st))
    IN  /\ (/\ TooFew(call)
            /\ debugBuild => \A e \in SectionEnds(call) :
                                e < NthPlaceholder(st, k) => EvenAt(st, e))
               => Overflows(call)
        /\ (/\ TooMany(call)
            /\ debugBuild => \A e \in SectionEnds(call) : EvenAt(st, e))
               => Mismatches(call)

\* an overflow in the having fragment after two placeholders were bound
C2_Witness ==
    /\ call.op = "query"
    /\ TooFew(call)
    /\ built.err = "overflow"
    /\ built.stop.frag = "having"
    /\ Len(built.binds) = 2
    /\ sent = <<>>

CountLit(sql, s) == Cardinality({i \in 1..Len(sql) : sql[i] = Lit(s)})

\* C4: a `?` preceded by an odd number of `'` in the scan is never rewritten:
\* no argument is converted for it, the cursor stays, and it reaches the SQL
\* text as a literal `?`.
C4_QuotedNeverPlaceholder ==
    call.op \in C2Ops =>
        LET st == ScanText(call)
            qs == {i \in 1..Len(st) : Quoted(st, i)}
        IN  /\ \A i \in qs :
                /\ \A j \in 1..Len(built.binds) :
                       [frag |-> built.binds[j].frag, pos |-> built.binds[j].pos]
                           # Site(st, i)
                /\ built.stop # Site(st, i)
            /\ built.idx = Len(built.binds)
            /\ built.idx <= Cardinality(Placeholders(st))
            /\ built.err = "" =>
                   CountLit(built.sql, "?") =
                       Cardinality(qs) + (IF dialect \in {"mysql", "sqlite"}
                                          THEN Len(built.params) ELSE 0)

\* a statement with a quoted `?` next to a rewritten one was sent
C4_Witness ==
    /\ call.op = "update"
    /\ dialect = "mssql"
    /\ \E i \in 1..Len(ScanText(call)) : Quoted(ScanText(call), i)
    /\ Len(sent) = 1
    /\ CountLit(sent[1].sql, "?") = 1

FragRank(name) == IF name = "join" THEN 1 ELSE IF name = "where" THEN 2 ELSE 3

\* C5: in count and the queries the placeholders of join_on, of the filter
\* expression and of having take consecutive arguments from one cursor, the
\* join_on ones first, then the where ones, then the having ones.
C5_SharedCursorOrder ==
    call.op \in {"count", "query_one", "query", "paged_query"} =>
        LET st == ScanText(call)
            n  == Len(built.binds)
            of(name) == {i \in 1..n : built.binds[i].frag = name}
            in(name) == {i \in Placeholders(st) : st[i].frag = name}
        IN  /\ \A i \in 1..n : built.binds[i].arg = i
            /\ \A i, j \in 1..n :
                   i < j => FragRank(built.binds[i].frag) <= FragRank(built.binds[j].frag)
            /\ built.err = "" =>
                   \A name \in {"join", "where", "having"} :
                       Cardinality(of(name)) = Cardinality(in(name))

\* join_on, where and having each had a placeholder: arguments 1, 2 and 3
C5_Witness ==
    /\ call.op = "paged_query"
    /\ built.err = ""
    /\ Len(built.binds) = 3
    /\ built.binds[1].frag = "join"
    /\ built.binds[2].frag = "where"
    /\ built.binds[3].frag = "having"
    /\ Len(sent) = 1

----------------------------------------------------------------------------
(* Build failures and the transport *)

Kept(i) == ~(fields[FNames[i]] = "-")
KeptFields == {i \in 1..NF : Kept(i)}

\* the values of the kept fields of one row, in declaration order
KeptValues(row) ==
    LET F[n \in 0..NF] ==
            IF n = 0 THEN <<>>
            ELSE IF Kept(n) THEN Append(F[n - 1], row[n]) ELSE F[n - 1]
    IN  F[NF]

RECURSIVE RowValues(_, _)
RowValues(rows, r) ==
    IF r > Len(rows) THEN <<>> ELSE KeptValues(rows[r]) \o RowValues(rows, r + 1)

BadField(c) ==
    /\ c.op \in {"insert_one", "update"}
    /\ \E i \in KeptFields : entity[i].typ \notin Supported(dialect)

BadCell(c) ==
    /\ c.op = "insert"
    /\ \E r \in 1..Len(c.rows), i \in KeptFields :
           c.rows[r][i].typ \notin Supported(dialect)

\* an argument the scan reaches has no converter
BadArg(c) ==
    /\ c.op \in C2Ops
    /\ \E j \in 1..Len(c.filter.args) :
        /\ j <= Cardinality(Placeholders(ScanText(c)))
        /\ c.filter.args[j].typ \notin Supported(dialect)

BuildErrors == {"overflow", "mismatch", "unsupported", "panic"}

\* C3: when the build of a statement fails (overflow, mismatch, a converter
\* error on an entity field, on a cell of a row of insert(rows) or on a
\* filter argument) nothing is handed to the transport; a statement that
\* insert(rows) does hand over carries every row.
C3_NothingSentOnBuildFailure ==
    call.op # "" =>
        /\ built.err # "" => sent = <<>> /\ outcome.status = built.err
        /\ outcome.status \in BuildErrors => sent = <<>>
        /\ (BadField(call) \/ BadCell(call) \/ BadArg(call)) =>
               sent = <<>> /\ outcome.status \in BuildErrors
        /\ call.op = "insert" /\ sent # <<>> =>
               sent[1].params = RowValues(call.rows, 1)
        /\ Len(sent) <= 1

\* the second of two rows fails to convert after the first was bound
C3_Witness ==
    /\ call.op = "insert"
    /\ Len(call.rows) = 2
    /\ Convertible(KeptValues(call.rows[1]))
    /\ ~Convertible(KeptValues(call.rows[2]))
    /\ Len(built.params) >= 1
    /\ outcome.status = "unsupported"
    /\ sent = <<>>

----------------------------------------------------------------------------
(* The bound argument list *)

I64s(l, o) == <<Val("i64", l), Val("i64", o)>>

\* C6 as stated: the list is the kept entity field values (insert_one,
\* update), the filter arguments, the pagination arguments (paginated
\* query, query_one).
C6_AsStated ==
    sent # <<>> =>
        LET head == FieldValues(call) \o call.filter.args
        IN  IF call.op = "query_one"
            THEN sent[1].params \in {head \o I64s(1, 0), head \o I64s(0, 1)}
            ELSE IF call.op = "paged_query"
                 THEN sent[1].params \in {head \o I64s(limit, offset),
                                          head \o I64s(offset, limit)}
                 ELSE sent[1].params = head

\* the pagination arguments each dialect binds
PageValues(c) ==
    IF c.op = "paged_query"
    THEN IF dialect = "mssql" THEN I64s(offset, limit) ELSE I64s(limit, offset)
    ELSE IF c.op = "query_one" /\ dialect # "mssql" THEN I64s(1, 0)
         ELSE <<>>

\* the numbers of the @P placeholders of a statement, in text order
RECURSIVE NumbersFrom(_, _)
NumbersFrom(sql, i) ==
    IF i > Len(sql) THEN <<>>
    ELSE IF sql[i].t = "@P" THEN <<sql[i].n>> \o NumbersFrom(sql, i + 1)
         ELSE NumbersFrom(sql, i + 1)

\* C6 (amended): the list handed to the transport is the kept entity field
\* values (insert_one, update) or the kept values of every row in row order
\* (insert), then the filter arguments, then the pagination arguments:
\* limit, offset for the paginated query and 1, 0 for query_one in
\* Postgres/MySQL/SQLite; offset, limit for the tabular paginated query and
\* none for the tabular query_one.  In the tabular dialect every @PN carries
\* the position of its argument in that list.
C6_BoundListOrder ==
    sent # <<>> =>
        LET ps == sent[1].params
            ns == NumbersFrom(sent[1].sql, 1)
            m  == Len(ps)
        IN  /\ ps = (IF call.op = "insert" THEN RowValues(call.rows, 1)
                     ELSE FieldValues(call)) \o call.filter.args \o PageValues(call)
            /\ dialect = "mssql" =>
                   IF call.op = "paged_query"
                   THEN ns = [i \in 1..(m - 1) |-> i] \o <<m - 1, m>>
                   ELSE ns = [i \in 1..m |-> i]

\* a tabular update with a bound field and a bound filter argument
C6_Witness ==
    /\ call.op = "update"
    /\ dialect = "mssql"
    /\ Len(sent) = 1
    /\ Len(FieldValues(call)) >= 1
    /\ Len(call.filter.args) = 1
    /\ Len(sent[1].params) = Len(FieldValues(call)) + 1

----------------------------------------------------------------------------
(* Excluded fields *)

Excluded == {i \in 1..NF : fields[FNames[i]] = "-"}

Values(vs) == {vs[i] : i \in 1..Len(vs)}

\* C7: a field whose override is "-" gives no column to an INSERT column
\* list, no assignment to a SET clause, no column to a SELECT list, no bound
\* value, and no call of the row materializer.
C7_ExcludedFieldAbsent ==
    \A i \in Excluded :
        /\ CountLit(built.sql, FNames[i]) = 0
        /\ CountLit(built.sql, "-") = 0
        /\ entity[i] \notin Values(built.params)
        /\ \A r \in 1..Len(call.rows) : call.rows[r][i] \notin Values(built.params)
        /\ \A j \in 1..Len(fromRow) : fromRow[j].fd # FNames[i]

\* two rows were read with the first field excluded
C7_Witness ==
    /\ call.op = "query"
    /\ fields["id"] = "-"
    /\ fields["name"] # "-"
    /\ outcome = Returned("ok", 2)
    /\ fromRow = <<[row |-> 1, fd |-> "name"], [row |-> 2, fd |-> "name"]>>

----------------------------------------------------------------------------
(* Unconditional mutations *)

\* C8: update and delete with an empty filter expression and no arguments
\* build a statement without a where clause, are not rejected for it, and
\* hand the statement to the transport (an update whose entity has a field
\* without converter fails on that field as it does with any filter).
C8_EmptyFilterUnconditional ==
    (/\ call.op \in {"update", "delete"}
     /\ call.filter.expr = <<>>
     /\ call.filter.args = <<>>) =>
        /\ CountLit(built.sql, " where ") = 0
        /\ built.err \in {"", "unsupported"}
        /\ built.err = "unsupported" <=> BadField(call)
        /\ built.err = "" => Len(sent) = 1 /\ sent[1].sql = built.sql

\* an update without filter reached the transport
C8_Witness ==
    /\ call.op = "update"
    /\ call.filter.expr = <<>>
    /\ call.filter.args = <<>>
    /\ Len(sent) = 1
    /\ CountLit(sent[1].sql, " where ") = 0
    /\ outcome.status = "ok"

----------------------------------------------------------------------------
(* The builder chain *)

Terminals == {"insert_one", "insert", "update", "delete", "count", "query_one",
              "query", "paged_query"}

Times(h, x) == Cardinality({i \in 1..Len(h) : h[i] = x})

\* C9: in a chain from a bound executor order_by happens at most once, limit
\* at most once and only after order_by, and a terminal operation is the last
\* step of the chain: nothing can be issued on the builder after it.
C9_ChainMonotonic ==
    /\ Times(hist, "order_by") <= 1
    /\ Times(hist, "limit") <= 1
    /\ \A i \in 1..Len(hist) :
        /\ hist[i] = "limit" => \E j \in 1..(i - 1) : hist[j] = "order_by"
        /\ hist[i] \in Terminals => i = Len(hist)
    /\ Times(hist, "bind") <= 1
    /\ Len(sent) <= 1
    /\ (hist # <<>> /\ hist[Len(hist)] \in Terminals) => ~ENABLED Next

\* the longest chain: bind, order_by, limit, query
C9_Witness ==
    /\ hist = <<"bind", "order_by", "limit", "paged_query">>
    /\ stage = "consumed"
    /\ Len(sent) = 1

CanInsertOne == ENABLED InsertOne(CoreFilters, ExecReplies)
CanInsert == ENABLED Insert(CoreRows, ExecReplies)
CanUpdate == ENABLED Update(CoreFilters, ExecReplies)
CanDelete == ENABLED Delete(CoreFilters, ExecReplies)
CanCount == ENABLED Count(CoreFilters, CoreOthers, RowReplies)
CanQueryOne == ENABLED QueryOne(CoreFilters, CoreOthers, RowReplies)
CanQuery ==
    \/ ENABLED Query(CoreFilters, CoreOthers, RowReplies)
    \/ ENABLED PagedQuery(CoreFilters, CoreOthers, RowReplies)
CanOrderBy == ENABLED OrderBy
CanLimit == ENABLED Limit

AllTerminals ==
    /\ CanInsertOne /\ CanInsert /\ CanUpdate /\ CanDelete /\ CanCount
    /\ CanQueryOne /\ CanQuery

\* C10 as stated: every terminal operation can be issued right after bind,
\* and still after order_by and after limit.
C10_AsStated ==
    hist \in {<<"bind">>, <<"bind", "order_by">>, <<"bind", "order_by", "limit">>}
        => AllTerminals

\* C10 (amended): right after bind exactly insert_one, insert, update,
\* delete and count can be issued (and order_by can be called); after
\* order_by exactly query_one and query (and limit can be called); after
\* limit exactly query.  order_by is needed before any query, limit is
\* optional.
C10_StepsPerStage ==
    /\ hist = <<"bind">> =>
        /\ CanInsertOne /\ CanInsert /\ CanUpdate /\ CanDelete /\ CanCount
        /\ CanOrderBy
        /\ ~CanQueryOne /\ ~CanQuery /\ ~CanLimit
    /\ hist = <<"bind", "order_by">> =>
        /\ CanQueryOne /\ CanQuery /\ CanLimit
        /\ ~CanInsertOne /\ ~CanInsert /\ ~CanUpdate /\ ~CanDelete /\ ~CanCount
        /\ ~CanOrderBy
    /\ hist = <<"bind", "order_by", "limit">> =>
        /\ CanQuery
        /\ ~CanQueryOne /\ ~CanInsertOne /\ ~CanInsert /\ ~CanUpdate /\ ~CanDelete
        /\ ~CanCount /\ ~CanOrderBy /\ ~CanLimit

\* a single-row query issued after order_by, without limit
C10_Witness ==
    /\ hist = <<"bind", "order_by", "query_one">>
    /\ Len(sent) = 1

----------------------------------------------------------------------------
(* One submission per statement *)

\* the values the debug argument string lists, in the order they were bound
BoundValues(c) ==
    (IF c.op = "insert" THEN RowValues(c.rows, 1) ELSE FieldValues(c))
        \o c.filter.args \o PageValues(c)

\* C11: a terminal operation whose build succeeds hands its statement to the
\* transport exactly once; when the transport fails, the error carries the
\* built SQL text and the debug argument string, and nothing is submitted
\* again.
C11_SubmittedOnceErrorAnnotated ==
    /\ Len(sent) <= 1
    /\ (call.op # "" /\ built.err = "") =>
           sent = <<[sql |-> built.sql, params |-> built.params]>>
    /\ outcome.status = "transport" =>
        /\ Len(sent) = 1
        /\ outcome.sql = sent[1].sql
        /\ outcome.args = BoundValues(call)
        /\ ~ENABLED Next

\* a count with a bound argument failed in the transport
C11_Witness ==
    /\ call.op = "count"
    /\ outcome.status = "transport"
    /\ Len(sent) = 1
    /\ Len(outcome.args) >= 1
    /\ outcome.sql = built.sql

----------------------------------------------------------------------------
(* Filter composition *)

LastCall == applied'[Len(applied')]
Called == Len(applied') = Len(applied) + 1

\* C12: if_and and if_or with a false condition leave the Filter as it was,
\* expression and arguments, whatever the item holds.
C12_FalseConditionNoChange ==
    [][(Called /\ ~LastCall.cond) => flt' = flt]_vars

\* a call with a false condition and a non-empty item on a non-empty Filter
C12_Witness ==
    /\ Len(applied) = 2
    /\ applied[1].cond /\ applied[1].frag # <<>>
    /\ ~applied[2].cond /\ applied[2].frag # <<>> /\ applied[2].args # <<>>
    /\ flt.expr = applied[1].frag
    /\ flt.args = applied[1].args

\* C13: a call that applies (and, or, if_and / if_or with a true condition)
\* with an empty fragment leaves the expression as it was and appends the
\* item's arguments, in their order, to the end of the argument list.
C13_EmptyFragmentKeepsExpr ==
    [][(Called /\ LastCall.cond /\ LastCall.frag = <<>>) =>
           /\ flt'.expr = flt.expr
           /\ flt'.args = flt.args \o LastCall.args]_vars

\* an empty fragment with an argument applied to a non-empty Filter
C13_Witness ==
    /\ Len(applied) = 2
    /\ applied[1].cond /\ applied[1].frag # <<>> /\ applied[1].args # <<>>
    /\ applied[2].cond /\ applied[2].frag = <<>> /\ applied[2].args # <<>>
    /\ flt.expr = applied[1].frag
    /\ Len(flt.args) = 2

\* the calls that appended a fragment
RECURSIVE Appending(_)
Appending(calls) ==
    IF calls = <<>> THEN <<>>
    ELSE LET c == calls[Len(calls)]
             rest == Appending(SubSeq(calls, 1, Len(calls) - 1))
         IN  IF c.cond /\ c.frag # <<>> THEN Append(rest, c) ELSE rest

\* their fragments, each later one preceded by the separator of its call
RECURSIVE Joined(_)
Joined(calls) ==
    IF calls = <<>> THEN <<>>
    ELSE IF Len(calls) = 1 THEN calls[1].frag
         ELSE Joined(SubSeq(calls, 1, Len(calls) - 1))
                  \o <<calls[Len(calls)].sep>> \o calls[Len(calls)].frag

Separators == {" and ", " or "}

\* C14: after any calls on an empty Filter the expression is the non-empty
\* fragments of the applying calls, joined by the separator of the call that
\* appended each later fragment; it never starts with a separator and holds
\* one separator less than fragments.
C14_SeparatorsOnlyBetween ==
    LET eff == Appending(applied)
        seps == {i \in 1..Len(flt.expr) : flt.expr[i] \in Separators}
    IN  /\ flt.expr = Joined(eff)
        /\ flt.expr # <<>> => flt.expr[1] \notin Separators
        /\ Cardinality(seps) = IF eff = <<>> THEN 0 ELSE Len(eff) - 1

\* and, a call that does not apply, or: two fragments and one " or "
C14_Witness ==
    /\ Len(applied) = 3
    /\ applied[1].sep = " and " /\ applied[1].cond /\ applied[1].frag = <<"a">>
    /\ ~applied[2].cond
    /\ applied[3].sep = " or " /\ applied[3].cond /\ applied[3].frag = <<"?">>
    /\ flt.expr = <<"a", " or ", "?">>

----------------------------------------------------------------------------
(* The table name *)

\* what character i of the type name becomes
Derived(nm, i) ==
    IF nm[i] \in Upper
    THEN (IF i > 1 THEN <<"_">> ELSE <<>>) \o <<ToLower(nm[i])>>
    ELSE <<nm[i]>>

RECURSIVE DerivedUpTo(_, _)
DerivedUpTo(nm, n) == IF n = 0 THEN <<>> ELSE DerivedUpTo(nm, n - 1) \o Derived(nm, n)

\* C15: the table name is the type name with every uppercase letter in
\* lowercase and one underscore before each uppercase letter that is not the
\* first character (`A` gives `a`, `ABs` gives `a_bs`); it starts with an
\* underscore only if the type name does.
C15_TableNameDerivation ==
    /\ table = DerivedUpTo(typeName, Len(typeName))
    /\ \A i \in 1..Len(table) : table[i] \notin Upper
    /\ Len(table) = Len(typeName)
                      + Cardinality({i \in 2..Len(typeName) : typeName[i] \in Upper})
    /\ table[1] = "_" => typeName[1] = "_"
    /\ NewTable(<<"A">>) = <<"a">>
    /\ NewTable(<<"A", "B", "s">>) = <<"a", "_", "b", "s">>

\* a bound model whose type name has two uppercase letters after the first
\* character
C15_Witness ==
    /\ typeName = <<"s", "A", "B">>
    /\ table = <<"s", "_", "a", "_", "b">>
    /\ stage = "Executor"

----------------------------------------------------------------------------
(* The select list *)

QueryOps == {"query_one", "query", "paged_query"}

\* the column expression of field i: its override, or its name
Column(i) == IF fields[FNames[i]] = "" THEN FNames[i] ELSE fields[FNames[i]]

\* C16 as stated: every kept field stands in the select list as
\* `col as field`, also when its override is empty.
C16_AsStated ==
    call.op \in QueryOps =>
        \A i \in KeptFields :
            \E j \in 1..(Len(built.sql) - 2) :
                /\ built.sql[j] = Lit(Column(i))
                /\ built.sql[j + 1] = Lit(" as ")
                /\ built.sql[j + 2] = Lit(FNames[i])

\* the text one kept field gives to the select list
SelectItem(i) ==
    IF fields[FNames[i]] = "" THEN <<Lit(FNames[i])>>
    ELSE <<Lit(fields[FNames[i]]), Lit(" as "), Lit(FNames[i])>>

\* the select list: separated by commas, or every item followed by one
RECURSIVE SelectList(_, _)
SelectList(n, trailing) ==
    IF n = 0 THEN <<>>
    ELSE LET rest == SelectList(n - 1, trailing) IN
         IF ~Kept(n) THEN rest
         ELSE IF trailing THEN rest \o SelectItem(n) \o <<Lit(",")>>
              ELSE (IF rest = <<>> THEN rest ELSE rest \o <<Lit(",")>>) \o SelectItem(n)

\* C16 (amended): the select list of query_one, query and the paginated
\* query holds, in declaration order, one item per kept field: `col as field`
\* when the field has a non-empty override, the bare field name without an
\* alias when its override is empty.
C16_SelectListItems ==
    call.op \in QueryOps =>
        LET paged == call.op = "paged_query" /\ dialect = "mssql"
            list  == SelectList(NF, paged)
            n     == Len(list)
        IN  /\ Len(built.sql) >= n + 2
            /\ SubSeq(built.sql, 2, n + 1) = list
            /\ built.sql[n + 2] = (IF paged THEN Lit("row_number() over (order by ")
                                   ELSE Lit(" from "))
            /\ CountLit(built.sql, " as ")
                   = Cardinality({i \in KeptFields : fields[FNames[i]] # ""})

\* a query over one field with an override and one without
C16_Witness ==
    /\ call.op = "query"
    /\ fields["id"] = "c"
    /\ fields["name"] = ""
    /\ SubSeq(built.sql, 2, 6)
           = <<Lit("c"), Lit(" as "), Lit("id"), Lit(","), Lit("name")>>
    /\ Len(sent) = 1

----------------------------------------------------------------------------
(* The keys of the mapping *)

FieldNames == {FNames[i] : i \in 1..NF}

\* C17: the keys of the mapping are the entity's field names, whatever the
\* caller did to the mapping since Model::new.
C17_KeysAreFieldNames == DOMAIN fields = FieldNames

\* a key was removed and the model bound afterwards
C17_KeyRemoved ==
    /\ "id" \notin DOMAIN fields
    /\ stage = "Executor"

----------------------------------------------------------------------------
(* query_one *)

\* query_one was issued and its statement reached the transport
QueryOneSent == call.op = "query_one" /\ built.err = "" /\ Len(sent) = 1

\* the statement ends with ` limit <bind 1> offset <bind 0>`
EndsLimitOneOffsetZero(st) ==
    LET n == Len(st.sql)
        p == Len(st.params)
    IN  /\ n >= 4 /\ p >= 2
        /\ st.sql[n - 3] = Lit(" limit ")
        /\ st.sql[n - 1] = Lit(" offset ")
        /\ st.sql[n - 2] = (IF dialect = "postgres" THEN [t |-> "$", n |-> p - 1]
                            ELSE Lit("?"))
        /\ st.sql[n] = (IF dialect = "postgres" THEN [t |-> "$", n |-> p] ELSE Lit("?"))
        /\ st.params[p - 1] = I64(1)
        /\ st.params[p] = I64(0)

\* the statement starts with `select top 1 ` and has no pagination section
StartsTopOne(st) ==
    /\ Head(st.sql) = Lit("select top 1 ")
    /\ \A i \in 1..Len(st.sql) :
        st.sql[i] \notin {Lit(" limit "), Lit(" offset "),
                          Lit(") sub where _num between (1+")}

CappedAtOneRow(st) ==
    IF dialect = "mssql" THEN StartsTopOne(st) ELSE EndsLimitOneOffsetZero(st)

\* the rows of the reply all convert: no from_row call fails
Converts ==
    \A i \in 1..NF :
        Skipped(fields, FNames[i]) \/ entity[i].typ \in FromRowSupported(dialect)

\* C18 as stated: a capped statement, NotFound on zero rows, one entity on
\* any other reply of rows
C18_AsStated ==
    QueryOneSent =>
        /\ CappedAtOneRow(sent[1])
        /\ (received[1].ok /\ received[1].rows = 0) => outcome.status = "notfound"
        /\ (received[1].ok /\ received[1].rows > 0) =>
               outcome.status = "ok" /\ outcome.count = 1

\* C18: query_one builds a statement capped at one row from the first row
\* (limit 1 offset 0 bound last in the sqlx dialects, `top 1` in the tabular
\* one), submits it once, returns the not-found error when the reply has no
\* row, one entity when the reply has rows that convert, and the conversion
\* error when a row does not convert.
C18_QueryOneCappedOneRow ==
    QueryOneSent =>
        /\ CappedAtOneRow(sent[1])
        /\ Len(received) = 1
        /\ (received[1].ok /\ received[1].rows = 0) => outcome.status = "notfound"
        /\ (received[1].ok /\ received[1].rows > 0 /\ Converts) =>
               outcome.status = "ok" /\ outcome.count = 1
        /\ (received[1].ok /\ received[1].rows > 0 /\ ~Converts) =>
               outcome.status = "from_row"

\* query_one got two rows back and returned one entity
C18_Witness ==
    /\ QueryOneSent
    /\ received[1] = Rows(2)
    /\ outcome.status = "ok"
    /\ outcome.count = 1

----------------------------------------------------------------------------
(* What a database answers to a paginated statement *)

\* a 64-bit sum the database cannot represent
SumOverflows(a, b) == a > I64Max - b

\* row numbers in ascending order
RECURSIVE Ascending(_)
Ascending(S) ==
    IF S = {} THEN <<>>
    ELSE LET m == CHOOSE x \in S : \A y \in S : x <= y
         IN  <<m>> \o Ascending(S \ {m})

\* the value a statement binds to a numbered placeholder
BoundAt(st, tok) == st.params[tok.n].val

\* `limit <l> offset <o>` closing a statement, over n ordered rows: skip o
\* rows, then return at most l
LimitOffsetRows(d, st, n) ==
    LET k == Len(st.sql)
        p == Len(st.params)
        l == IF d = "postgres" THEN BoundAt(st, st.sql[k - 2]) ELSE st.params[p - 1].val
        o == IF d = "postgres" THEN BoundAt(st, st.sql[k]) ELSE st.params[p].val
    IN  [ok |-> TRUE, rows |-> Ascending({i \in 1..n : i > o /\ i - o <= l})]

\* `select * from (.. row_number() over (..) as _num ..) sub where _num
\* between (1+@Pa) and (@Pb+@Pc)` over n ordered rows
NumBetweenRows(st, n) ==
    LET k == CHOOSE i \in 1..Len(st.sql) :
                 st.sql[i] = Lit(") sub where _num between (1+")
        a == BoundAt(st, st.sql[k + 1])
        b == BoundAt(st, st.sql[k + 3])
        c == BoundAt(st, st.sql[k + 5])
    IN  IF SumOverflows(1, a) \/ SumOverflows(b, c)
        THEN [ok |-> FALSE, rows |-> <<>>]
        ELSE [ok |-> TRUE, rows |-> Ascending({i \in 1..n : 1 + a <= i /\ i <= b + c})]

Answer(d, st, n) ==
    IF d = "mssql" THEN NumBetweenRows(st, n) ELSE LimitOffsetRows(d, st, n)

\* the rows numbered offset+1 .. offset+limit of n
PageOf(n, l, o) == Ascending((o + 1)..(o + l) \cap 1..n)

\* a paginated query reached the transport
PagedSent == call.op = "paged_query" /\ built.err = "" /\ Len(sent) = 1

\* C19: over any n ordered rows, the paginated statement of every dialect
\* selects the rows numbered offset+1 .. offset+limit, for every limit >= 0
\* and offset >= 0.
C19_SamePage ==
    PagedSent =>
        \A n \in 0..MaxTable :
            Answer(dialect, sent[1], n) = [ok |-> TRUE, rows |-> PageOf(n, limit, offset)]

\* C19 where the database can compute 1+offset and offset+limit
C19_SamePageInRange ==
    (PagedSent /\ ~SumOverflows(1, offset) /\ ~SumOverflows(offset, limit)) =>
        \A n \in 0..MaxTable :
            Answer(dialect, sent[1], n) = [ok |-> TRUE, rows |-> PageOf(n, limit, offset)]

\* the tabular dialect paginating with the largest limit after one row
C19_Witness ==
    /\ PagedSent
    /\ dialect = "mssql"
    /\ limit = I64Max
    /\ offset = 1

\* the tabular dialect returning rows 2..4 of 4 for limit(3, 1)
C19_WitnessInRange ==
    /\ PagedSent
    /\ dialect = "mssql"
    /\ limit = 3
    /\ offset = 1
    /\ Answer(dialect, sent[1], MaxTable).rows = <<2, 3, 4>>

----------------------------------------------------------------------------
(* The order string *)

\* the statement the issued query builds when given the order string ord
BuiltWithOrder(ord) ==
    IF call.op = "query_one"
    THEN QueryOneBuild(dialect, debugBuild, table, fields, call.filter, call.other, ord)
    ELSE IF call.op = "query"
         THEN QueryBuild(dialect, debugBuild, table, fields, call.filter, call.other,
                         ord)
         ELSE PagedBuild(dialect, debugBuild, table, fields, call.filter, call.other,
                         ord, limit, offset)

\* the characters of the order string, as statement text
Verbatim(ord) == [i \in 1..Len(ord) |-> Lit(ord[i])]

\* the statement text st with ` order by <ord>` put before its last k items
OrderBefore(st, ord, k) ==
    SubSeq(st, 1, Len(st) - k) \o <<Lit(" order by ")>> \o Verbatim(ord)
        \o SubSeq(st, Len(st) - k + 1, Len(st))

\* the statement text st with <ord> in the place of `(select 1)`
OrderInOver(st, ord) ==
    LET k == CHOOSE i \in 1..Len(st) : st[i] = Lit("(select 1)")
    IN  SubSeq(st, 1, k - 1) \o Verbatim(ord) \o SubSeq(st, k + 1, Len(st))

\* the statement text without an order string, with the order string added
WithOrder(st, ord) ==
    IF Len(ord) = 0 THEN st
    ELSE IF call.op = "paged_query" /\ dialect = "mssql" THEN OrderInOver(st, ord)
         ELSE IF dialect # "mssql" /\ call.op # "query" THEN OrderBefore(st, ord, 4)
              ELSE OrderBefore(st, ord, 0)

\* C20: the order string is copied into the statement as it is and the
\* placeholder rewriter never sees it: compared with the same query built
\* without an order string, the bound arguments, the debug string, the
\* argument cursor, the quote flag, the placeholders rewritten and the error
\* are the same, and the statement text differs by the order string alone.
C20_OrderVerbatim ==
    call.op \in QueryOps =>
        LET b0 == BuiltWithOrder(<<>>) IN
        /\ built.params = b0.params
        /\ built.args = b0.args
        /\ built.idx = b0.idx
        /\ built.quo = b0.quo
        /\ built.binds = b0.binds
        /\ built.err = b0.err
        /\ built.stop = b0.stop
        /\ built.err = "" => built.sql = WithOrder(b0.sql, order)

\* a query with a placeholder in its filter and `'?` as its order string
\* reached the transport
C20_Witness ==
    /\ call.op \in QueryOps
    /\ order = <<"'", "?">>
    /\ built.err = ""
    /\ Len(built.binds) = 1
    /\ Len(sent) = 1

----------------------------------------------------------------------------
(* Round trip *)

\* the entity that was inserted: the fields of an entity hold 10 + i
Original == [i \in 1..NF |-> Val(entity[i].typ, 10 + i)]

\* insert_one stored the entity and query_one then asked for it
ReadBack ==
    /\ hist = <<"bind", "insert_one", "bind", "order_by", "query_one">>
    /\ Len(sent) = 2
    /\ Len(Table) = 1

SameOnKept(e) ==
    \A i \in 1..NF : Skipped(fields, FNames[i]) \/ e[i] = Original[i]

\* C21 as stated: reading back an inserted entity gives an entity equal to
\* it on every non-excluded field, for fields of the types the built-in
\* converter binds
C21_AsStated ==
    ReadBack => outcome.status = "ok" /\ Len(returned) = 1 /\ SameOnKept(returned[1])

\* C21: reading back an inserted entity gives an entity equal to it on
\* every non-excluded field when every such field has a type the built-in
\* row conversion accepts; with a field of another type (`&str`, which only
\* the argument converter accepts) query_one returns the conversion error.
C21_RoundTrip ==
    ReadBack =>
        IF Converts
        THEN outcome.status = "ok" /\ Len(returned) = 1 /\ SameOnKept(returned[1])
        ELSE outcome.status = "from_row" /\ returned = <<>>

\* an entity stored under an override column and read back
C21_Witness ==
    /\ ReadBack
    /\ fields["id"] = "c"
    /\ fields["name"] = ""
    /\ outcome.status = "ok"
    /\ returned = <<Original>>

----------------------------------------------------------------------------
(* Concurrent builds *)

\* the statement the operation of task t builds when it runs alone
Alone(t) == TaskStatement(tasks[t].op, tasks[t].model, tasks[t].filter)

C22_OthersUntouched ==
    [][\A t \in Tasks : tasks'[t] = tasks[t] \/ \A u \in Tasks \ {t} : tasks'[u] = tasks[u]]_vars

----------------------------------------------------------------------------
(* Columns and the values bound to them *)

Marks == {"?", "$", "@P"}

\* the number of placeholders in each value tuple of an insert statement,
\* read from position i on: a tuple ends at `)` or at ` where `
RECURSIVE TupleSizes(_, _, _, _)
TupleSizes(sql, i, cur, acc) ==
    IF i > Len(sql) \/ sql[i].t = " where " THEN IF cur > 0 THEN Append(acc, cur) ELSE acc
    ELSE IF sql[i].t = ")" THEN TupleSizes(sql, i + 1, 0, Append(acc, cur))
         ELSE TupleSizes(sql, i + 1, IF sql[i].t \in Marks THEN cur + 1 ELSE cur, acc)

\* where the value tuples of an insert statement begin
ValuesAt(sql) ==
    CHOOSE i \in 1..Len(sql) :
        sql[i].t \in {" values (", " select ", ") values ", ")  values "}

\* the assignments of `update t set c1=<p>,c2=<p> ..`: column and placeholder
SetItems(sql) ==
    LET at == CHOOSE i \in 1..Len(sql) : sql[i] = Lit(" set ")
    IN  Items(sql, at + 1, {" where "}, <<>>, <<>>)

\* the columns of the participating fields, in declaration order
KeptColumns == KeptValues([i \in 1..NF |-> Column(i)])

\* C23: insert_one, insert and update name the non-excluded fields in
\* declaration order, each by its override or, when that is empty, by its
\* field name; every value tuple has one placeholder per column, and the
\* values bound are those of the non-excluded fields in the same order.
C23_ColumnsPairValues ==
    (call.op \in {"insert_one", "insert", "update"} /\ built.err = "") =>
        LET nc == Len(KeptColumns)
            sizes == TupleSizes(built.sql, ValuesAt(built.sql) + 1, 0, <<>>)
        IN  IF call.op = "update"
            THEN /\ SetItems(built.sql) =
                        [j \in 1..nc |-> <<KeptColumns[j], "=", SetItems(built.sql)[j][3]>>]
                 /\ \A j \in 1..nc : SetItems(built.sql)[j][3] \in Marks
                 /\ SubSeq(built.params, 1, nc) = KeptValues(entity)
            ELSE /\ InsertColumns(built.sql) = KeptColumns
                 /\ \A t \in 1..Len(sizes) : sizes[t] = nc
                 /\ IF call.op = "insert_one"
                    THEN /\ Len(sizes) = 1 \/ (nc = 0 /\ call.filter.some)
                         /\ SubSeq(built.params, 1, nc) = KeptValues(entity)
                    ELSE /\ Len(sizes) = Len(call.rows)
                         /\ built.params = RowValues(call.rows, 1)

\* two rows inserted under an override column and a field name
C23_Witness ==
    /\ call.op = "insert"
    /\ built.err = ""
    /\ Len(call.rows) = 2
    /\ InsertColumns(built.sql) = <<"c", "name">>
    /\ Len(built.params) = 4
    /\ Len(sent) = 1

----------------------------------------------------------------------------
(* The two forms of count *)

\* C24: count opens `select count(*) from (select 1 ..` exactly when other
\* is given with a non-empty group_by and then, once built, ends with
\* `) sub` written once; otherwise it starts `select count(*) from t` and
\* holds neither the subquery nor `) sub`.
C24_CountForms ==
    call.op = "count" =>
        LET wrapped == call.other.some /\ Len(call.other.group_by) > 0
            opening == IF dialect = "mssql" THEN "select count(*) from (select 1 as n"
                       ELSE "select count(*) from (select 1"
        IN  /\ Head(built.sql) = Lit(IF wrapped THEN opening ELSE "select count(*)")
            /\ built.sql[2] = Lit(" from ")
            /\ CountLit(built.sql, opening) = (IF wrapped THEN 1 ELSE 0)
            /\ ~wrapped => CountLit(built.sql, ") sub") = 0
            /\ (wrapped /\ built.err = "") =>
                   /\ built.sql[Len(built.sql)] = Lit(") sub")
                   /\ CountLit(built.sql, ") sub") = 1

\* a grouped count with a having placeholder reached the transport
C24_Witness ==
    /\ call.op = "count"
    /\ call.other.group_by = <<"g">>
    /\ call.other.having = <<"?">>
    /\ built.err = ""
    /\ Len(sent) = 1
    /\ sent[1].sql[Len(sent[1].sql)] = Lit(") sub")

----------------------------------------------------------------------------
(* The two forms of insert_one *)

\* n placeholders separated by commas stand at positions from..to of sql
ValueList(sql, from, to, n) ==
    /\ to - from + 1 = (IF n = 0 THEN 0 ELSE 2 * n - 1)
    /\ \A i \in from..to :
        IF (i - from) % 2 = 0 THEN sql[i].t \in Marks ELSE sql[i] = Lit(",")

\* C25: insert_one without a filter is `insert into t(cols) values (v1,..,vn)`
\* and ends with `)`; with a filter it is `insert into t(cols) select
\* v1,..,vn where <expression>`, with no `values (` and no `)` after the
\* column list; the values of the entity are bound before the arguments of
\* the filter.
C25_InsertOneForms ==
    (call.op = "insert_one" /\ built.err = "") =>
        LET sql == built.sql
            nc == Len(KeptColumns)
            v == ValuesAt(sql)
            end == v + (IF nc = 0 THEN 0 ELSE 2 * nc - 1)
        IN  /\ Head(sql) = Lit("insert into ")
            /\ InsertColumns(sql) = KeptColumns
            /\ sql[v - 1] = Lit(")")
            /\ ValueList(sql, v + 1, end, nc)
            /\ built.params = KeptValues(entity) \o call.filter.args
            /\ IF call.filter.some
               THEN /\ sql[v] = Lit(" select ")
                    /\ sql[end + 1] = Lit(" where ")
                    /\ CountLit(sql, " values (") = 0
                    /\ CountLit(sql, ")") = 1
               ELSE /\ sql[v] = Lit(" values (")
                    /\ Len(sql) = end + 1
                    /\ sql[end + 1] = Lit(")")
                    /\ CountLit(sql, " select ") = 0
                    /\ CountLit(sql, " where ") = 0

\* an insert_one with a filter that binds one argument after the two values
C25_Witness ==
    /\ call.op = "insert_one"
    /\ call.filter.some
    /\ built.err = ""
    /\ Len(call.filter.args) = 1
    /\ Len(built.params) = 3
    /\ Len(sent) = 1

----------------------------------------------------------------------------
(* Returned entities, the template and the Filter *)

\* the place of field i in the select list
Rank(i) == Cardinality({j \in KeptFields : j <= i})

\* C26: a query operation leaves the template entity and the Filter it was
\* given as they were, and every entity it returns is the template with each
\* non-excluded field set from one data row (the k-th row for the k-th
\* entity; for query_one the row it kept) and each excluded field left at
\* the template's value.
C26_FreshCloneFrame ==
    [][(stage # "consumed" /\ stage' = "consumed") =>
          /\ entity' = entity
          /\ flt' = flt
          /\ fields' = fields
          /\ call'.filter = SomeFilter(flt)
          /\ Len(returned') = (IF outcome'.status = "ok" THEN outcome'.count ELSE 0)
          /\ \A k \in 1..Len(returned') :
                LET r == IF call'.op = "query_one" THEN Len(fromRow') \div Len(KeptColumns)
                         ELSE k
                IN  \A i \in 1..NF :
                        returned'[k][i] =
                            (IF Kept(i) THEN Val(entity[i].typ, 20 * r + Rank(i))
                             ELSE entity[i])]_vars

\* two entities came back with the first field excluded: both hold the
\* template's value there and their own row's value in the other field
C26_Witness ==
    /\ call.op = "query"
    /\ fields["id"] = "-"
    /\ fields["name"] = ""
    /\ flt.expr = <<"?">>
    /\ outcome = Returned("ok", 2)
    /\ returned = <<[entity EXCEPT ![2] = Val("i64", 21)],
                    [entity EXCEPT ![2] = Val("i64", 41)]>>

----------------------------------------------------------------------------
(* One quote flag for join on, where and having *)

CountQueryOps == {"count", "query_one", "query", "paged_query"}

\* join_on holds an odd number of quotes
JoinOdd(c) == Cardinality({i \in 1..Len(JoinText(c)) : JoinText(c)[i] = "'"}) % 2 = 1

\* the `?` of the filter expression that no quote of the expression precedes
LeadMarks(c) ==
    {i \in 1..Len(WhereText(c)) :
        /\ WhereText(c)[i] = "?"
        /\ \A j \in 1..(i - 1) : WhereText(c)[j] # "'"}

\* the scan of join_on meets no error of its own
JoinPasses(c) ==
    /\ Convertible(c.filter.args)
    /\ Cardinality({i \in Placeholders(ScanText(c)) : ScanText(c)[i].frag = "join"})
           <= Len(c.filter.args)

BindSites == {[frag |-> built.binds[j].frag, pos |-> built.binds[j].pos] :
                 j \in 1..Len(built.binds)}

\* the where keyword was written and no leading `?` of the expression took
\* an argument
LeadCopied(c) ==
    /\ CountLit(built.sql, " where ") = 1
    /\ \A i \in LeadMarks(c) : [frag |-> "where", pos |-> i] \notin BindSites

\* C27 as stated: an odd number of quotes in join_on makes every leading `?`
\* of the where fragment a literal that takes no argument.
C27_AsStated ==
    (/\ call.op \in CountQueryOps
     /\ JoinOdd(call)
     /\ JoinPasses(call)
     /\ LeadMarks(call) # {}) => LeadCopied(call)

\* C27 (amended): count and the queries keep one quote flag over join_on,
\* the filter expression and having.  A `?` takes an argument only where the
\* number of quotes scanned before it in all fragments is even, and once the
\* scan has run to its end exactly those `?` took one.  After an odd number
\* of quotes in join_on a build without debug assertions copies every
\* leading `?` of the where fragment as a literal; a build with debug
\* assertions panics at the end of the join on section and writes no where
\* fragment.
C27_SingleQuoteFlag ==
    call.op \in CountQueryOps =>
        LET st == ScanText(call)
            ps == {Site(st, i) : i \in Placeholders(st)}
        IN  /\ BindSites \subseteq ps
            /\ built.err \in {"", "mismatch"} => BindSites = ps
            /\ (JoinOdd(call) /\ JoinPasses(call)) =>
                   IF debugBuild
                   THEN /\ built.err = "panic"
                        /\ outcome.status = "panic"
                        /\ CountLit(built.sql, " where ") = 0
                   ELSE (built.err \in {"", "mismatch"} /\ LeadMarks(call) # {})
                            => LeadCopied(call)

\* a query whose join_on opens a quote: the leading `?` of the expression
\* went out as a literal with no parameter, the quote of the expression
\* closed the literal
C27_Witness ==
    /\ call.op = "query"
    /\ dialect = "mssql"
    /\ ~debugBuild
    /\ JoinText(call) = <<"'">>
    /\ WhereText(call) = <<"?", "'">>
    /\ Len(sent) = 1
    /\ sent[1].params = <<>>
    /\ CountLit(sent[1].sql, "?") = 1

----------------------------------------------------------------------------
(* having without group by *)

\* a non-empty having next to an empty group_by
HavingAlone(c) ==
    /\ c.op \in CountQueryOps
    /\ c.other.some
    /\ c.other.group_by = <<>>
    /\ c.other.having # <<>>

\* join_on, the expression and having as one scan would read them
WithHaving(c) ==
    Tagged("join", JoinText(c)) \o Tagged("where", WhereText(c))
        \o Tagged("having", c.other.having)

\* the `?` of having that such a scan would rewrite
HavingMarks(c) ==
    {i \in Placeholders(WithHaving(c)) : WithHaving(c)[i].frag = "having"}

\* the call brings one argument for every placeholder, those of having
\* included, and join_on and the expression are scanned without an error
SuppliesHaving(c) ==
    /\ HavingAlone(c)
    /\ HavingMarks(c) # {}
    /\ Len(c.filter.args) = Cardinality(Placeholders(WithHaving(c)))
    /\ Convertible(c.filter.args)
    /\ debugBuild => \A e \in SectionEnds(c) : EvenAt(ScanText(c), e)

----------------------------------------------------------------------------
(* The where keyword *)

Wheres == CountLit(built.sql, " where ")

\* the scan ended on its own: no overflow, no failed conversion, no panic
ScanEnded == built.err \in {"", "mismatch"}

\* C29: insert_one with Some(filter) writes ` where ` once whatever the
\* expression is and, when the scan ends, compares the cursor with the
\* number of arguments; with an empty expression the statement ends in
\* ` where `, is sent so when there are no arguments and is refused with the
\* mismatch error when there are.  update, delete, count and the queries
\* write ` where ` only for a non-empty expression.
C29_WhereKeyword ==
    /\ (call.op = "insert_one" /\ call.filter.some /\ built.err # "unsupported") =>
           /\ Wheres = 1
           /\ ScanEnded =>
                  (built.err = "mismatch") = (built.idx # Len(call.filter.args))
           /\ call.filter.expr = <<>> =>
                  /\ built.sql[Len(built.sql)] = Lit(" where ")
                  /\ built.err = (IF call.filter.args = <<>> THEN "" ELSE "mismatch")
                  /\ call.filter.args = <<>> =>
                         /\ Len(sent) = 1
                         /\ sent[1].sql = built.sql
    /\ (call.op = "insert_one" /\ ~call.filter.some) => Wheres = 0
    /\ call.op \in ScanOps =>
           /\ call.filter.expr = <<>> => Wheres = 0
           /\ (call.filter.expr # <<>> /\ ScanEnded) => Wheres = 1
           /\ Wheres <= 1

\* insert_one under a filter with an empty expression: the statement sent
\* ends in ` where `
C29_Witness ==
    /\ call.op = "insert_one"
    /\ call.filter.some
    /\ call.filter.expr = <<>>
    /\ outcome.status = "ok"
    /\ Len(sent) = 1
    /\ sent[1].sql[Len(sent[1].sql)] = Lit(" where ")
    /\ CountLit(sent[1].sql, " select ") = 1

----------------------------------------------------------------------------
(* Parameters, conversions and placeholder numbers *)

\* the numbers of the placeholders of mark t, in text order
RECURSIVE MarksFrom(_, _, _)
MarksFrom(sql, t, i) ==
    IF i > Len(sql) THEN <<>>
    ELSE IF sql[i].t = t THEN <<sql[i].n>> \o MarksFrom(sql, t, i + 1)
         ELSE MarksFrom(sql, t, i + 1)

\* the tabular limit section of the builder has been written
PagedTail(b) == CountLit(b.sql, ") sub where _num between (1+") = 1

\* a builder whose parameters, conversions and placeholder numbers agree
Aligned(d, b) ==
    LET m  == Len(b.params)
        ns == MarksFrom(b.sql, IF d = "postgres" THEN "$" ELSE "@P", 1)
    IN  /\ m = Len(b.args)
        /\ m >= Len(b.binds)
        /\ d \in {"mssql", "postgres"} =>
               /\ \A i \in 1..Len(ns) : 1 <= ns[i] /\ ns[i] <= m
               /\ {ns[i] : i \in 1..Len(ns)} = 1..m
               /\ ns = (IF d = "mssql" /\ PagedTail(b)
                        THEN [i \in 1..(m - 1) |-> i] \o <<m - 1, m>>
                        ELSE [i \in 1..m |-> i])
        /\ d \in {"mysql", "sqlite"} => CountLit(b.sql, "?") >= m

\* C30: with the built-in converter the builder holds as many parameters as
\* conversions were made, wherever the build stands (at an error, at the
\* end) and in the statement handed to the transport; in the tabular
\* dialect the @PN written are numbered 1, 2, .. up to the number of
\* parameters, each at most that number, the paginated query writing the
\* number of the offset twice and that of the limit once.
C30_ParametersMatchPlaceholders ==
    /\ (call.op # "" /\ dialect # "") => Aligned(dialect, built)
    /\ \A k \in 1..Len(sent) :
           Aligned(dialect, [built EXCEPT !.sql = sent[k].sql,
                                          !.params = sent[k].params,
                                          !.args = sent[k].params])
    /\ (sent # <<>> /\ built.err = "") =>
           /\ sent[Len(sent)].sql = built.sql
           /\ sent[Len(sent)].params = built.params

\* a tabular paginated query with one filter argument went out: @P1, then
\* the offset as @P2 twice and the limit as @P3
C30_Witness ==
    /\ call.op = "paged_query"
    /\ dialect = "mssql"
    /\ Len(sent) = 1
    /\ Len(sent[1].params) = 3
    /\ built.binds # <<>>
    /\ MarksFrom(sent[1].sql, "@P", 1) = <<1, 2, 2, 3>>

====
